---- MODULE Spec2Model ----
(***************************************************************************)
(* Download orchestration core of the media downloader                     *)
(* (server/routes.ts and the MemStorage of server/index.ts).               *)
(*                                                                         *)
(* Execution model.  The server is one Node.js event loop.  One action of  *)
(* this module is one event-loop turn: an HTTP request, a timer, a child   *)
(* process event or a finished fetch, together with every promise          *)
(* continuation the turn makes runnable.  MemStorage's promises are        *)
(* already resolved when awaited, so a handler's `await storage.x(...)`    *)
(* continues in the same turn; the only suspensions that span turns are    *)
(* setTimeout, the child process and the network fetch.  Date.now() is     *)
(* read as the variable now, which does not change within a turn.          *)
(*                                                                         *)
(* Timers.  The rate-limit wait of the queue worker carries its deadline   *)
(* and fires no sooner.  The one-second pauses and the spawn timeout fire  *)
(* in some later turn: the model keeps that they suspend, not for how      *)
(* long, which allows every real schedule and some faster ones.            *)
(*                                                                         *)
(* Strings are sequences of tokens, so that includes / startsWith /        *)
(* endsWith are computed (contiguous subsequence, prefix, suffix).         *)
(***************************************************************************)
EXTENDS Integers, Sequences, FiniteSets, TLC

(* ------------------------------ bounds -------------------------------- *)

\* Submissions accepted over a run of the whole server (Spec).
MaxJobs == 2

\* Submissions accepted over a run of the queue alone (QueueSpec).
MaxQueued == 3

\* Submissions accepted over a run of the mixed intake (BypassSpec).
MaxMixed == 4

\* Submissions accepted over a run of the close handlers (CloseSpec).
MaxClosed == 1

\* Records created over a run of the listing alone (ListSpec).
MaxListed == 3

\* Free passage of time stops here; a pending wait still comes due.
MaxTime == 61000

(* ------------------------------ strings ------------------------------- *)

\* String.prototype.startsWith
StartsWith(s, p) ==
    /\ Len(p) <= Len(s)
    /\ \A i \in 1..Len(p) : s[i] = p[i]

\* String.prototype.endsWith
EndsWith(s, p) ==
    /\ Len(p) <= Len(s)
    /\ \A i \in 1..Len(p) : s[Len(s) - Len(p) + i] = p[i]

\* String.prototype.includes
Includes(s, p) ==
    \E k \in 0..(Len(s) - Len(p)) : \A i \in 1..Len(p) : s[k + i] = p[i]

\* JavaScript values of the nullable text columns: null, undefined, a string.
Null == [k |-> "null", v |-> <<>>]
Undefined == [k |-> "undefined", v |-> <<>>]
Str(s) == [k |-> "string", v |-> s]

\* JavaScript truthiness of such a value: a non-empty string, or an object.
Truthy(x) == (x.k = "string" /\ x.v # <<>>) \/ x.k = "object"

\* a || b
OrElse(a, b) == IF Truthy(a) THEN a ELSE b

\* Math.ceil(a / b) for a >= 0, b > 0
Ceil(a, b) == (a + b - 1) \div b

(* -------------------------------- URLs -------------------------------- *)

\* A submitted URL: wellFormed is whether `new URL(url)` accepts it; host,
\* pathname and search are the parsed parts, lower case, as token sequences.
Url(w, h, p, q) == [wellFormed |-> w, host |-> h, pathname |-> p, search |-> q]

IgPost == Url(TRUE, <<"www", ".", "instagram", ".", "com">>,
              <<"/", "p", "/", "abc", "/">>, <<>>)
IgImage == Url(TRUE, <<"scontent", ".", "cdn", "instagram", ".", "com">>,
               <<"/", "v", "/", "photo", ".", "jpg">>, <<>>)
IgHome == Url(TRUE, <<"www", ".", "instagram", ".", "com">>, <<"/">>, <<>>)
YtWatch == Url(TRUE, <<"www", ".", "youtube", ".", "com">>,
               <<"/", "watch">>, <<"?", "v", "=", "x">>)
PlainImage == Url(TRUE, <<"example", ".", "com">>,
                  <<"/", "pic", ".", "png">>, <<"?", "w", "=", "1">>)
Malformed == Url(FALSE, <<>>, <<"not", "a", "url">>, <<>>)

\* The URLs a client submits.
Urls == {IgPost, IgImage, IgHome, YtWatch, PlainImage, Malformed}

\* More URLs of shapes validateUrl looks for.
YtChannel == Url(TRUE, <<"www", ".", "youtube", ".", "com">>,
                 <<"/", "channel", "/", "abc">>, <<>>)
YtPlaylist == Url(TRUE, <<"www", ".", "youtube", ".", "com">>,
                  <<"/", "playlist">>, <<"?", "list", "=", "x">>)
IgProfile == Url(TRUE, <<"www", ".", "instagram", ".", "com">>,
                 <<"/", "someone", "/">>, <<>>)
Homepage == Url(TRUE, <<"example", ".", "com">>, <<"/">>, <<>>)

IntakeUrls == Urls \cup {YtChannel, YtPlaylist, IgProfile, Homepage}

\* Videos of two more platforms with rules of their own in processMedia.
TikTokVideo == Url(TRUE, <<"www", ".", "tiktok", ".", "com">>,
                   <<"/", "@", "someone", "/", "video", "/", "1">>, <<>>)
VimeoVideo == Url(TRUE, <<"vimeo", ".", "com">>, <<"/", "1">>, <<>>)

PlanUrls == Urls \cup {TikTokVideo, VimeoVideo}

\* The url string as the regular expressions see it, from the path on.
Href(url) == url.pathname \o url.search

ImageExtensions == {"jpg", "jpeg", "png", "gif", "webp", "bmp", "svg"}

\* /\.(jpg|jpeg|png|gif|webp|bmp|svg)(\?.*)?$/i
MatchesImageExtension(s) ==
    \E i \in 1..(Len(s) - 1) :
        /\ s[i] = "."
        /\ s[i + 1] \in ImageExtensions
        /\ (i + 1 = Len(s) \/ s[i + 2] = "?")

isDirectImageUrl(url) == MatchesImageExtension(Href(url))

platformMap ==
    << <<<<"youtube", ".", "com">>, "YouTube">>,
       <<<<"youtu", ".", "be">>, "YouTube">>,
       <<<<"instagram", ".", "com">>, "Instagram">>,
       <<<<"tiktok", ".", "com">>, "TikTok">>,
       <<<<"twitter", ".", "com">>, "Twitter">>,
       <<<<"x", ".", "com">>, "Twitter">>,
       <<<<"facebook", ".", "com">>, "Facebook">>,
       <<<<"vimeo", ".", "com">>, "Vimeo">>,
       <<<<"twitch", ".", "tv">>, "Twitch">>,
       <<<<"dailymotion", ".", "com">>, "Dailymotion">>,
       <<<<"soundcloud", ".", "com">>, "SoundCloud">>,
       <<<<"reddit", ".", "com">>, "Reddit">> >>

detectPlatform(url) ==
    IF ~url.wellFormed THEN "Unknown"
    ELSE LET hits == {i \in 1..Len(platformMap) :
                         Includes(url.host, platformMap[i][1])}
         IN  IF hits # {}
             THEN platformMap[CHOOSE i \in hits : \A j \in hits : i <= j][2]
             ELSE IF MatchesImageExtension(Href(url)) THEN "Direct Image"
             ELSE "Unknown"

\* pathname.match(/^\/[^\/]+\/?$/): one non-empty segment, optional slash.
IsSingleSegment(p) ==
    /\ Len(p) >= 2
    /\ p[1] = "/"
    /\ \E n \in 2..Len(p) :
        /\ \A i \in 2..n : p[i] # "/"
        /\ (n = Len(p) \/ (n + 1 = Len(p) /\ p[Len(p)] = "/"))

\* Fault: every URL that parses is let through.
validateUrl_parsesOnly(url) == url.wellFormed

\* validateUrl(url).isValid
validateUrl(url) ==
    IF ~url.wellFormed THEN FALSE
    ELSE LET domain == url.host
             pathname == url.pathname
         IN
         /\ ~(/\ Includes(domain, <<"youtube", ".", "com">>)
              /\ \/ Includes(pathname, <<"/", "channel", "/">>)
                 \/ Includes(pathname, <<"/", "@">>)
                 \/ Includes(pathname, <<"/", "user", "/">>)
                 \/ Includes(pathname, <<"/", "c", "/">>)
                 \/ (/\ Includes(pathname, <<"/", "playlist">>)
                     /\ ~Includes(url.search, <<"v", "=">>)))
         /\ ~(/\ Includes(domain, <<"instagram", ".", "com">>)
              /\ \/ pathname = <<"/">>
                 \/ Includes(pathname, <<"/", "explore", "/">>)
                 \/ (/\ IsSingleSegment(pathname)
                     /\ ~Includes(pathname, <<"/", "p", "/">>)
                     /\ ~Includes(pathname, <<"/", "reel", "/">>)))
         /\ ~(pathname = <<"/">> /\ ~isDirectImageUrl(url))

\* The message of the 400 response: that of the schema for a string that is
\* not a URL, else validateUrl(url).error.
validationError(url) ==
    IF ~url.wellFormed THEN <<"Please enter a valid URL">>
    ELSE LET domain == url.host
             pathname == url.pathname
         IN
         IF /\ Includes(domain, <<"youtube", ".", "com">>)
            /\ \/ Includes(pathname, <<"/", "channel", "/">>)
               \/ Includes(pathname, <<"/", "@">>)
               \/ Includes(pathname, <<"/", "user", "/">>)
               \/ Includes(pathname, <<"/", "c", "/">>)
         THEN <<"Please provide a direct video URL, ",
                "not a channel or user profile URL">>
         ELSE IF /\ Includes(domain, <<"youtube", ".", "com">>)
                 /\ Includes(pathname, <<"/", "playlist">>)
                 /\ ~Includes(url.search, <<"v", "=">>)
         THEN <<"Please provide a direct video URL, ", "not a playlist URL">>
         ELSE IF /\ Includes(domain, <<"instagram", ".", "com">>)
                 /\ \/ pathname = <<"/">>
                    \/ Includes(pathname, <<"/", "explore", "/">>)
         THEN <<"Please provide a direct post or reel URL, ",
                "not the homepage or explore page">>
         ELSE IF /\ Includes(domain, <<"instagram", ".", "com">>)
                 /\ IsSingleSegment(pathname)
                 /\ ~Includes(pathname, <<"/", "p", "/">>)
                 /\ ~Includes(pathname, <<"/", "reel", "/">>)
         THEN <<"Please provide a direct post or reel URL, ",
                "not a profile URL">>
         ELSE <<"Please provide a direct link to media content, ",
                "not the homepage">>

(* ------------------------------ storage ------------------------------- *)

\* Ids the storage hands out within the bounds.
Ids ==
    LET Larger(a, b) == IF a >= b THEN a ELSE b
    IN  1..Larger(MaxJobs, Larger(MaxQueued, MaxMixed))

\* insertDownload.field, undefined when the insert data lacks the field.
Field(insert, f) == IF f \in DOMAIN insert THEN insert[f] ELSE Undefined

\* Fault: the status of the insert data is ignored.
createDownload_pending(id, insert, createdAt) ==
    [id |-> id,
     url |-> insert.url,
     title |-> OrElse(Field(insert, "title"), Null),
     platform |-> insert.platform,
     format |-> insert.format,
     quality |-> OrElse(Field(insert, "quality"), Null),
     filename |-> Null,
     status |-> "pending",
     downloadUrl |-> Null,
     metadata |-> OrElse(Field(insert, "metadata"), Null),
     errorMessage |-> Null,
     createdAt |-> createdAt]

\* MemStorage.createDownload: the record built from the insert data.
createDownload(id, insert, createdAt) ==
    [id |-> id,
     url |-> insert.url,
     title |-> OrElse(Field(insert, "title"), Null),
     platform |-> insert.platform,
     format |-> insert.format,
     quality |-> OrElse(Field(insert, "quality"), Null),
     filename |-> Null,
     status |-> IF "status" \in DOMAIN insert THEN insert.status
                ELSE "pending",
     downloadUrl |-> Null,
     metadata |-> OrElse(Field(insert, "metadata"), Null),
     errorMessage |-> Null,
     createdAt |-> createdAt]

\* Fault: a spread that keeps only the fields of the patch.
Spread_reset(existing, updates) ==
    [f \in DOMAIN existing |->
        IF f \in DOMAIN updates THEN updates[f]
        ELSE IF f \in {"filename", "downloadUrl", "errorMessage"} THEN Null
        ELSE existing[f]]

\* { ...existing, ...updates }
Spread(existing, updates) ==
    [f \in DOMAIN existing |->
        IF f \in DOMAIN updates THEN updates[f] ELSE existing[f]]

\* Fault: an update that stores the fields even when the id is not stored.
updateDownload_upsert(store, id, updates) ==
    [i \in DOMAIN store \cup {id} |->
        IF i \in DOMAIN store /\ i # id THEN store[i]
        ELSE IF i \in DOMAIN store THEN Spread(store[i], updates)
        ELSE updates]

\* MemStorage.updateDownload: nothing happens for an id that is not stored.
updateDownload(store, id, updates) ==
    IF id \notin DOMAIN store THEN store
    ELSE [store EXCEPT ![id] = Spread(@, updates)]

\* What MemStorage.updateDownload returns.
updated(store, id, updates) ==
    IF id \notin DOMAIN store THEN Undefined
    ELSE [k |-> "record", v |-> Spread(store[id], updates)]

\* MemStorage.deleteDownload
deleteDownload(store, id) ==
    [i \in DOMAIN store \ {id} |-> store[i]]

\* Where Array.prototype.sort, which is stable, puts record id under the
\* comparator b.createdAt - a.createdAt: behind every record created at a
\* later time, and behind the records of its own time that the Map holds
\* before it. The Map iterates in insertion order, which is the order of ids.
rankOf(store, id) ==
    1 + Cardinality({o \in DOMAIN store :
                        \/ store[o].createdAt > store[id].createdAt
                        \/ /\ store[o].createdAt = store[id].createdAt
                           /\ o < id})

\* Math.max(1, Math.min(limit, 100))
sliceEnd(limit) ==
    LET capped == IF limit < 100 THEN limit ELSE 100
    IN  IF capped > 1 THEN capped ELSE 1

getRecentDownloads(store, limit) ==
    LET n == Cardinality(DOMAIN store)
        sorted == [i \in 1..n |->
                      store[CHOOSE id \in DOMAIN store :
                                rankOf(store, id) = i]]
    IN  SubSeq(sorted, 1, IF sliceEnd(limit) < n THEN sliceEnd(limit) ELSE n)

(* ------------------------------- state -------------------------------- *)

VARIABLES
    downloads,                 \* MemStorage.downloads: id -> record
    currentId,                 \* MemStorage.currentId
    instagramRequestQueue,     \* queued download ids, oldest first
    isProcessingInstagram,     \* the worker-running flag
    lastInstagramRequestTime,  \* time of the last release, 0 before any
    workers,                   \* suspended runs of processInstagramQueue
    task,                      \* id -> where that job's background work is
    files,                     \* the downloads directory: name and mtime
    now,                       \* Date.now()
    crashed,                   \* the process died of an uncaught exception
    warned,                    \* ids warned about as updated but not stored
    cookiesFile,               \* whether cookies.txt exists
    returned,                  \* the last call of MemStorage and its value
    response,                  \* the last response to a POST /api/process
                               \* or a DELETE /api/downloads/:id
    log,                       \* history of queue events and spawn calls,
                               \* oldest first
    currentDownloadId          \* the client: the state of the Home page

vars == <<downloads, currentId, instagramRequestQueue, isProcessingInstagram,
          lastInstagramRequestTime, workers, task, files, now, crashed,
          warned, cookiesFile, returned, response, log, currentDownloadId>>

\* Milliseconds between two Instagram releases.
minDelay == 60000

\* Age below which the locator's second layer takes a file.
recentWindow == 300000

\* actualFile before the locator has run, and after the directory read threw.
NotLocated == [k |-> "unset", v |-> <<>>]
Threw == [k |-> "threw", v |-> <<>>]

NoTask == [pc |-> "none", path |-> "none", url |-> Malformed,
           stderr |-> <<>>, code |-> "none", actualFile |-> NotLocated,
           args |-> <<>>, format |-> "video"]

\* Before any call of the storage, and before any response.
NoCall ==
    [op |-> "none", id |-> 0, updates |-> <<>>, limit |-> 0,
     value |-> Undefined]

NoResponse == [code |-> "none", body |-> [k |-> "none", v |-> Null]]

Init ==
    /\ downloads = <<>>
    /\ currentId = 1
    /\ instagramRequestQueue = <<>>
    /\ isProcessingInstagram = FALSE
    /\ lastInstagramRequestTime = 0
    /\ workers = <<>>
    /\ task = [id \in Ids |-> NoTask]
    /\ files = {}
    /\ now = 1000
    /\ crashed = FALSE
    /\ warned = {}
    /\ cookiesFile \in BOOLEAN
    /\ returned = NoCall
    /\ response = NoResponse
    /\ log = <<>>
    /\ currentDownloadId = Null

\* The state as one value, so that the steps of a handler compose.
State ==
    [downloads |-> downloads,
     currentId |-> currentId,
     instagramRequestQueue |-> instagramRequestQueue,
     isProcessingInstagram |-> isProcessingInstagram,
     lastInstagramRequestTime |-> lastInstagramRequestTime,
     workers |-> workers,
     task |-> task,
     files |-> files,
     now |-> now,
     crashed |-> crashed,
     warned |-> warned,
     cookiesFile |-> cookiesFile,
     returned |-> returned,
     response |-> response,
     log |-> log,
     currentDownloadId |-> currentDownloadId]

Becomes(S) ==
    /\ downloads' = S.downloads
    /\ currentId' = S.currentId
    /\ instagramRequestQueue' = S.instagramRequestQueue
    /\ isProcessingInstagram' = S.isProcessingInstagram
    /\ lastInstagramRequestTime' = S.lastInstagramRequestTime
    /\ workers' = S.workers
    /\ task' = S.task
    /\ files' = S.files
    /\ now' = S.now
    /\ crashed' = S.crashed
    /\ warned' = S.warned
    /\ cookiesFile' = S.cookiesFile
    /\ returned' = S.returned
    /\ response' = S.response
    /\ log' = S.log
    /\ currentDownloadId' = S.currentDownloadId

\* await storage.updateDownload(id, updates), with its console.warn for an
\* id that is not stored.
Update(S, id, updates) ==
    [S EXCEPT !.downloads = updateDownload(@, id, updates),
              !.warned = IF id \in DOMAIN S.downloads THEN @ ELSE @ \cup {id}]

\* Fault: the lowest id no stored record has is handed out.
Create_lowestFree(S, insert) ==
    LET id == CHOOSE i \in 1..S.currentId :
                  /\ i \notin DOMAIN S.downloads
                  /\ \A j \in 1..(i - 1) : j \in DOMAIN S.downloads
    IN  [S EXCEPT
            !.currentId = IF id = @ THEN @ + 1 ELSE @,
            !.downloads = [i \in DOMAIN S.downloads \cup {id} |->
                              IF i = id
                              THEN createDownload(id, insert, S.now)
                              ELSE S.downloads[i]]]

\* await storage.createDownload(insert): id = this.currentId++, and the
\* record enters the map.
Create(S, insert) ==
    LET id == S.currentId
    IN  [S EXCEPT
            !.currentId = id + 1,
            !.downloads = [i \in DOMAIN S.downloads \cup {id} |->
                              IF i = id
                              THEN createDownload(id, insert, S.now)
                              ELSE S.downloads[i]]]

\* The job's background work moves to pc.
Goto(S, id, pc) == [S EXCEPT !.task[id].pc = pc]

\* A queue event enters the history.
Logged(S, event, id) ==
    [S EXCEPT !.log = Append(@, [event |-> event, id |-> id, at |-> S.now])]

(* --------------------------- external world --------------------------- *)

\* What spawn() does: the child starts; spawn throws; or the executable is
\* missing and the child emits 'error' and later 'close' with a negative code.
SpawnOutcomes == {"started", "throws", "enoent"}

\* What the tool may have written to stderr when it closes.
Stderrs ==
    { <<>>,
      <<"ERROR:", " ", "HTTP Error ", "429", ": ", "Too Many Requests">>,
      <<"ERROR:", " ", "Unsupported URL">> }

\* What the tool may have left in the downloads directory.
ToolOutputs == { {}, {"media", "info"} }

\* uuidv4(): one fresh token per job.
uuid(id) == <<"uuid", ToString(id)>>

\* `${filename}_${platformName}-%(title)s.%(ext)s` as the tool expands it.
ToolFileName(id, platform, kind) ==
    uuid(id) \o <<"_", platform, "-", "title">> \o
        (IF kind = "info" THEN <<".info.json">> ELSE <<".", "mp4">>)

ToolFiles(S, id, platform, output) ==
    [S EXCEPT !.files =
        {f \in @ : \A kind \in output : f.name # ToolFileName(id, platform, kind)}
        \cup {[name |-> ToolFileName(id, platform, kind), mtime |-> S.now] :
                 kind \in output}]

(* ------------------------------ messages ------------------------------ *)

WaitingMessage(waitTime) ==
    Str(<<"Waiting ", ToString(Ceil(waitTime, 1000)),
          " seconds to avoid Instagram rate limiting...">>)

InstagramRateLimitMessage ==
    Str(<<"Instagram rate limiting detected. The system will automatically wait 60 seconds between Instagram requests to avoid this. Try again in a few minutes.">>)

InstagramFailedMessage ==
    Str(<<"Instagram download failed. Instagram frequently blocks automated downloads. Try again later or provide authentication cookies.">>)

InstagramRestrictedMessage ==
    Str(<<"Instagram processing failed due to platform restrictions.">>)

RateLimitedMessage(platformName) ==
    Str(<<"Rate limited by ", platformName,
          ". Please wait a few minutes before trying again.">>)

AuthenticationMessage(platformName) ==
    Str(<<platformName, " requires authentication. Please sign in to the platform in your browser and try again, or contact support for help with authentication setup.">>)

ForbiddenMessage(platformName) ==
    Str(<<"Access forbidden by ", platformName,
          ". This content may be region-blocked, private, or require special permissions. Try using authentication cookies.">>)

NotFoundMessage ==
    Str(<<"Content not found. The video may have been deleted, made private, or the URL is incorrect.">>)

NoFileMessage == Str(<<"Download completed but no file was found">>)

InstagramNoFileMessage == Str(<<"Downloaded file not found">>)

ProcessingErrorMessage == Str(<<"Processing error: ", "error.message">>)

InstagramProcessingErrorMessage == Str(<<"Error processing downloaded file">>)

\* `Failed to start download process: ${error.message}`
StartFailureMessage ==
    Str(<<"Failed to start download process: ", "error.message">>)

\* error.message of an exception raised by the runtime (never empty there).
RuntimeErrorMessage == Str(<<"error.message">>)

\* `/api/download/${downloadId}`
downloadUrlOf(id) == Str(<<"/api/download/", ToString(id)>>)

\* A metadata object, by its keys.
Object(keys) == [k |-> "object", v |-> keys]

\* updateDownload(id, { status: "failed", errorMessage })
\* Fault: the failure update stamps the record with the time of the failure.
Failed_restamps(S, id, message) ==
    Update(S, id, [status |-> "failed", errorMessage |-> message,
                   createdAt |-> S.now])

Failed(S, id, message) ==
    Update(S, id, [status |-> "failed", errorMessage |-> message])

\* Fault: a completion update that leaves downloadUrl out.
Completed_noDownloadUrl(S, id, title, actualFile, metadata) ==
    Update(S, id, [status |-> "completed",
                   title |-> title,
                   filename |-> Str(actualFile),
                   metadata |-> metadata])

\* updateDownload(id, { status: "completed", title, filename, metadata,
\* downloadUrl })
Completed(S, id, title, actualFile, metadata) ==
    Update(S, id, [status |-> "completed",
                   title |-> title,
                   filename |-> Str(actualFile),
                   metadata |-> metadata,
                   downloadUrl |-> downloadUrlOf(id)])

(* ------------------------------ arguments ----------------------------- *)

\* The three formats the request schema admits.
AllFormats == {"video", "audio", "image"}

\* Fault: the credential rule of the general path on the Instagram path,
\* with no fallback when the file is missing.
instagramArgs_noFallback(cookies, format) ==
    <<"--no-playlist", "--write-info-json", "--quiet", "--no-warnings",
      "--retries", "1", "--socket-timeout", "60", "--no-call-home",
      "--no-check-certificate", "-o", "outputPath">>
    \o (IF cookies THEN <<"--cookies", "cookiesPath">> ELSE <<>>)
    \o <<"--format", "best", "url">>

\* The argument list processInstagramMedia builds; cookies is whether
\* cookies.txt exists when it is built.
instagramArgs(cookies, format) ==
    <<"--no-playlist", "--write-info-json", "--quiet", "--no-warnings",
      "--retries", "1", "--socket-timeout", "60", "--no-call-home",
      "--no-check-certificate", "-o", "outputPath">>
    \o (IF cookies THEN <<"--cookies", "cookiesPath">>
        ELSE <<"--cookies-from-browser", "chrome">>)
    \o <<"--user-agent", "iPhone",
         "--add-header", "Accept", "--add-header", "Accept-Language",
         "--sleep-interval", "30", "--max-sleep-interval", "60">>
    \o (IF format = "video" THEN <<"--format", "best[ext=mp4]/best">>
        ELSE IF format = "audio"
        THEN <<"--extract-audio", "--audio-format", "mp3">>
        ELSE <<"--format", "best">>)
    \o <<"url">>

\* The platform-specific part of the argument list of processMedia.
platformArgs(platformName, cookies, format) ==
    IF platformName = "YouTube"
    THEN (IF cookies THEN <<>> ELSE <<"--cookies-from-browser", "chrome">>)
         \o <<"--user-agent", "Windows",
              "--extractor-args", "youtube:player_client",
              "--add-header", "Accept", "--add-header", "Accept-Language",
              "--add-header", "Accept-Encoding", "--add-header", "DNT",
              "--add-header", "Connection",
              "--sleep-interval", "1", "--max-sleep-interval", "5">>
         \o (IF format = "video" THEN <<"-f", "best[ext=mp4]/best">>
             ELSE <<>>)
    ELSE IF platformName = "TikTok"
    THEN <<"--user-agent", "Android",
           "--sleep-interval", "2", "--max-sleep-interval", "8">>
    ELSE IF platformName = "Facebook"
    THEN <<"--user-agent", "Windows",
           "--extractor-args", "facebook:tab_reel=true",
           "--sleep-interval", "2", "--max-sleep-interval", "8">>
    ELSE IF platformName = "Twitter"
    THEN <<"--user-agent", "Windows",
           "--sleep-interval", "1", "--max-sleep-interval", "5">>
    ELSE IF platformName = "Vimeo"
    THEN <<"--user-agent", "Windows", "-f", "best[ext=mp4]/best">>
    ELSE <<"--user-agent", "Windows",
           "--sleep-interval", "1", "--max-sleep-interval", "4">>

\* Fault: the exclusion of YouTube and Vimeo covers the image rule too.
formatArgs_exclusionFirst(platformName, format, quality) ==
    IF format = "audio"
    THEN <<"--extract-audio", "--audio-format", "mp3",
           "--audio-quality", "192K">>
    ELSE IF platformName = "YouTube" \/ platformName = "Vimeo"
    THEN <<>>
    ELSE IF format = "video"
    THEN (IF Truthy(quality) /\ quality # Str(<<"best">>)
          THEN <<"-f", "best[height<=heightLimit]/best">>
          ELSE <<"-f", "best">>)
    ELSE <<"--write-thumbnail", "--convert-thumbnails", "jpg", "-f", "best">>

\* The format-specific part; quality is a value of the quality column.
formatArgs(platformName, format, quality) ==
    IF format = "audio"
    THEN <<"--extract-audio", "--audio-format", "mp3",
           "--audio-quality", "192K">>
    ELSE IF format = "video" /\ platformName # "YouTube"
            /\ platformName # "Vimeo"
    THEN (IF Truthy(quality) /\ quality # Str(<<"best">>)
          THEN <<"-f", "best[height<=heightLimit]/best">>
          ELSE <<"-f", "best">>)
    ELSE IF format = "image"
    THEN <<"--write-thumbnail", "--convert-thumbnails", "jpg", "-f", "best">>
    ELSE <<>>

\* Fault: the credential-file flag is passed whether the file exists or not.
generalArgs_cookiesAlways(platformName, cookies, format, quality) ==
    <<"--no-playlist", "--write-info-json", "--no-warnings",
      "--ignore-errors", "--no-check-certificate", "--retries", "5",
      "--fragment-retries", "5", "--retry-sleep", "exp=1:30", "--geo-bypass",
      "--sleep-interval", "1", "--max-sleep-interval", "5",
      "-o", "outputPath">>
    \o <<"--cookies", "cookiesPath">>
    \o platformArgs(platformName, cookies, format)
    \o formatArgs(platformName, format, quality)
    \o <<"url">>

\* The argument list processMedia builds on the general path.
generalArgs(platformName, cookies, format, quality) ==
    <<"--no-playlist", "--write-info-json", "--no-warnings",
      "--ignore-errors", "--no-check-certificate", "--retries", "5",
      "--fragment-retries", "5", "--retry-sleep", "exp=1:30", "--geo-bypass",
      "--sleep-interval", "1", "--max-sleep-interval", "5",
      "-o", "outputPath">>
    \o (IF cookies THEN <<"--cookies", "cookiesPath">> ELSE <<>>)
    \o platformArgs(platformName, cookies, format)
    \o formatArgs(platformName, format, quality)
    \o <<"url">>

\* args.includes(flag)
HasArg(args, flag) == \E i \in DOMAIN args : args[i] = flag

(* --------------------------- Instagram queue --------------------------- *)

\* A run of processInstagramQueue suspended in one of its two timers.
Waiting(id, deadline) ==
    [pc |-> "waiting", downloadId |-> id, deadline |-> deadline]

Delaying == [pc |-> "delay", downloadId |-> 0, deadline |-> 0]

RemoveAt(seq, w) ==
    [i \in 1..(Len(seq) - 1) |-> IF i < w THEN seq[i] ELSE seq[i + 1]]

\* processInstagramMedia after its turn has come: spawn of the tool.  A
\* throw lands in the catch block; a missing executable makes the child emit
\* 'error', for which this path registers no listener.
spawnInstagram(S, id, out) ==
    LET S1 == Logged([S EXCEPT !.task[id].args =
                         instagramArgs(S.cookiesFile, S.task[id].format)],
                     "spawned", id)
    IN  IF out = "throws"
        THEN Goto(Failed(S1, id, InstagramRestrictedMessage), id, "done")
        ELSE IF out = "enoent"
        THEN [Goto(S1, id, "dead") EXCEPT !.crashed = TRUE]
        ELSE Goto(S1, id, "running")

\* Fault: the job is let go with the advisory still in its record.
releaseInstagram_keepsAdvisory(S, w, id, out) ==
    LET S1 == [S EXCEPT !.lastInstagramRequestTime = S.now]
        S3 == Logged(S1, "released", id)
        S4 == [S3 EXCEPT !.workers[w] = Delaying]
    IN  spawnInstagram(S4, id, out)

\* Fault: an entry whose record is gone is dropped, with no stamp and no
\* release.
releaseInstagram_dropsDeleted(S, w, id, out) ==
    IF id \notin DOMAIN S.downloads
    THEN [S EXCEPT !.workers[w] = Delaying]
    ELSE LET S1 == [S EXCEPT !.lastInstagramRequestTime = S.now]
             S2 == Update(S1, id, [status |-> "processing",
                                   errorMessage |-> Undefined])
             S3 == Logged(S2, "released", id)
             S4 == [S3 EXCEPT !.workers[w] = Delaying]
         IN  spawnInstagram(S4, id, out)

\* The worker lets job id go: stamp, clear the advisory, resolve, and
\* suspend in the one-second timer.
releaseInstagram(S, w, id, out) ==
    LET S1 == [S EXCEPT !.lastInstagramRequestTime = S.now]
        S2 == Update(S1, id, [status |-> "processing",
                              errorMessage |-> Undefined])
        S3 == Logged(S2, "released", id)
        S4 == [S3 EXCEPT !.workers[w] = Delaying]
    IN  spawnInstagram(S4, id, out)

\* Fault: the wait is computed without asking whether any release has
\* happened yet.
waitTimeOf_firstWaits(t, last) ==
    IF t - last < minDelay THEN minDelay - (t - last) ELSE 0

\* Fault: six seconds where sixty are meant.
waitTimeOf_sixSeconds(t, last) ==
    IF t - last < 6000 /\ last > 0 THEN 6000 - (t - last) ELSE 0

\* The wait before the next release at time t, 0 for none.
waitTimeOf(t, last) ==
    IF t - last < minDelay /\ last > 0 THEN minDelay - (t - last) ELSE 0

\* Fault: the worker takes the newest entry (pop) instead of the oldest.
shift_pop(queue) ==
    [head |-> queue[Len(queue)], rest |-> SubSeq(queue, 1, Len(queue) - 1)]

\* Array.prototype.shift
shift(queue) == [head |-> Head(queue), rest |-> Tail(queue)]

\* Array.prototype.push
push(queue, id) == Append(queue, id)

\* Fault: the running flag is given up each time the worker lets a job go.
queueLoop_resetsEarly(S, w, out) ==
    IF S.instagramRequestQueue = <<>>
    THEN [S EXCEPT !.isProcessingInstagram = FALSE,
                   !.workers = RemoveAt(@, w)]
    ELSE LET item == shift(S.instagramRequestQueue)
             S1 == [S EXCEPT !.instagramRequestQueue = item.rest]
             waitTime == waitTimeOf(S.now, S.lastInstagramRequestTime)
         IN  IF waitTime > 0
             THEN [Update(S1, item.head,
                          [status |-> "processing",
                           errorMessage |-> WaitingMessage(waitTime)])
                      EXCEPT !.workers[w] =
                                 Waiting(item.head, S.now + waitTime)]
             ELSE [releaseInstagram(S1, w, item.head, out)
                      EXCEPT !.isProcessingInstagram = FALSE]

\* The while loop of processInstagramQueue, from its condition.
queueLoop(S, w, out) ==
    IF S.instagramRequestQueue = <<>>
    THEN [S EXCEPT !.isProcessingInstagram = FALSE,
                   !.workers = RemoveAt(@, w)]
    ELSE LET item == shift(S.instagramRequestQueue)
             S1 == [S EXCEPT !.instagramRequestQueue = item.rest]
             waitTime == waitTimeOf(S.now, S.lastInstagramRequestTime)
         IN  IF waitTime > 0
             THEN [Update(S1, item.head,
                          [status |-> "processing",
                           errorMessage |-> WaitingMessage(waitTime)])
                      EXCEPT !.workers[w] =
                                 Waiting(item.head, S.now + waitTime)]
             ELSE releaseInstagram(S1, w, item.head, out)

\* Fault: a worker start that does not look at the running flag.
processInstagramQueue_noFlag(S, out) ==
    IF S.instagramRequestQueue = <<>>
    THEN S
    ELSE queueLoop([S EXCEPT !.isProcessingInstagram = TRUE,
                             !.workers = Append(@, Delaying)],
                   Len(S.workers) + 1, out)

processInstagramQueue(S, out) ==
    IF S.isProcessingInstagram \/ S.instagramRequestQueue = <<>>
    THEN S
    ELSE queueLoop([S EXCEPT !.isProcessingInstagram = TRUE,
                             !.workers = Append(@, Delaying)],
                   Len(S.workers) + 1, out)

processInstagramMedia(S, id, out) ==
    LET S1 == [Goto(S, id, "queued") EXCEPT
                  !.instagramRequestQueue = push(@, id)]
    IN  processInstagramQueue(Logged(S1, "enqueued", id), out)

(* ---------------------------- general path ---------------------------- *)

\* Fault: path selection without the Instagram branch.
pathOf_noInstagram(url) ==
    IF isDirectImageUrl(url) THEN "direct" ELSE "general"

\* Fault: every URL that is not a direct image goes through the queue.
pathOf_allQueued(url) ==
    IF isDirectImageUrl(url) THEN "direct" ELSE "instagram"

\* Which branch of processMedia takes the URL.
pathOf(url) ==
    IF isDirectImageUrl(url) THEN "direct"
    ELSE IF detectPlatform(url) = "Instagram" THEN "instagram"
    ELSE "general"

\* spawn of the tool on the general path: the 'error' listener records the
\* failure in the turn of the spawn, and 'close' follows.
spawnGeneral(S, id, out) ==
    LET S1 == Logged([S EXCEPT !.task[id].args =
                         generalArgs(detectPlatform(S.task[id].url),
                                     S.cookiesFile, S.task[id].format,
                                     Undefined)],
                     "spawned", id)
    IN  IF out = "throws"
        THEN Goto(Failed(S1, id, RuntimeErrorMessage), id, "done")
        ELSE IF out = "enoent"
        THEN Goto(Failed(S1, id, StartFailureMessage), id, "errored")
        ELSE Goto(S1, id, "running")

processMedia(S, id, url, format, out) ==
    LET S1 == [S EXCEPT !.task[id] =
                  [NoTask EXCEPT !.pc = "start", !.path = pathOf(url),
                                 !.url = url, !.format = format]]
    IN  IF pathOf(url) = "direct" THEN Goto(S1, id, "fetching")
        ELSE IF pathOf(url) = "instagram"
        THEN processInstagramMedia(S1, id, out)
        ELSE spawnGeneral(S1, id, out)

(* ------------------------------- locator ------------------------------ *)

IsSidecar(name) == EndsWith(name, <<".info.json">>)

IsPartial(name) == EndsWith(name, <<".part">>)

\* Layer 1: f.startsWith(filename), neither sidecar nor partial.
prefixMatches(dir, token) ==
    {f \in dir : /\ StartsWith(f.name, token)
                 /\ ~IsSidecar(f.name)
                 /\ ~IsPartial(f.name)}

\* Layer 2: files younger than five minutes, bookkeeping files skipped.
recentFiles(dir, t) ==
    {f \in dir : /\ ~IsSidecar(f.name)
                 /\ ~StartsWith(f.name, <<"test.">>)
                 /\ ~IsPartial(f.name)
                 /\ ~EndsWith(f.name, <<".tmp">>)
                 /\ t - f.mtime < recentWindow}

\* The heads the sort by descending mtime can produce.
mostRecent(candidates) ==
    {f \in candidates : \A g \in candidates : g.mtime <= f.mtime}

\* Layer 3: f.includes(filename).
substringMatches(dir, token) == {f \in dir : Includes(f.name, token)}

\* Fault: the recency layer is tried before the prefix layer.
locate_recentFirst(dir, token, t) ==
    IF recentFiles(dir, t) # {} THEN mostRecent(recentFiles(dir, t))
    ELSE IF prefixMatches(dir, token) # {} THEN prefixMatches(dir, token)
    ELSE substringMatches(dir, token)

\* The files the general locator can select; readdir order decides among
\* them.
locate(dir, token, t) ==
    IF prefixMatches(dir, token) # {} THEN prefixMatches(dir, token)
    ELSE IF recentFiles(dir, t) # {} THEN mostRecent(recentFiles(dir, t))
    ELSE substringMatches(dir, token)

\* The Instagram path has the first layer only.
locateInstagram(dir, token) == prefixMatches(dir, token)

\* The sidecar the title is read from, if any.
infoFiles(dir, token) ==
    {f \in dir : StartsWith(f.name, token) /\ IsSidecar(f.name)}

\* title = metadata.title || fallback, when a sidecar is there and parses.
titleOf(dir, token, parses, fallback) ==
    IF infoFiles(dir, token) # {} /\ parses
    THEN Str(<<"title">>)
    ELSE fallback

\* metadata = JSON.parse(infoContent), or {} when there is no sidecar or it
\* does not parse.
metadataOf(dir, token, parses) ==
    IF infoFiles(dir, token) # {} /\ parses
    THEN Object({"title"})
    ELSE Object({})

(* --------------------------- close handlers ---------------------------- *)

IncludesAny(s, patterns) == \E p \in patterns : Includes(s, p)

InstagramRateLimitPatterns ==
    { <<"HTTP Error ", "429">>, <<"Too Many Requests">>,
      <<"rate-limit reached">>, <<"login required">> }

RateLimitPatterns ==
    { <<"HTTP Error ", "429">>, <<"Too Many Requests">>, <<"rate limit">> }

AuthenticationPatterns ==
    { <<"Sign in to confirm">>, <<"Sign in to continue">>,
      <<"login_required">>, <<"Private video">>, <<"cookies-from-browser">>,
      <<"authentication">>, <<"This video is unavailable">>,
      <<"Video unavailable">> }

ForbiddenPatterns == { <<"HTTP Error ", "403">>, <<"Forbidden">> }

NotFoundPatterns == { <<"HTTP Error ", "404">>, <<"Not Found">> }

\* The patterns of the non-zero-exit branch of processMedia.
ExitAuthenticationPatterns ==
    { <<"login required">>, <<"rate-limit reached">>, <<"authentication">> }

ExitNotFoundPatterns == { <<"404", ": ", "Not Found">> }

ExtractionPatterns ==
    { <<"unable to extract">>, <<"General metadata extraction failed">> }

\* The stderr and exit code the close handler's closure holds.
Captured(S, id, code, stderr) ==
    [S EXCEPT !.task[id].stderr = stderr, !.task[id].code = code]

\* Fault: the exit code is looked at before stderr.
closeInstagram_codeFirst(S, id, code, stderr) ==
    LET S1 == Captured(S, id, code, stderr)
    IN  IF code = "0" THEN Goto(S1, id, "syncWait")
        ELSE IF IncludesAny(stderr, InstagramRateLimitPatterns)
        THEN Goto(Failed(S1, id, InstagramRateLimitMessage), id, "done")
        ELSE Goto(Failed(S1, id, InstagramFailedMessage), id, "done")

\* ytDlp.on("close") of processInstagramMedia, up to its pause.
closeInstagram(S, id, code, stderr) ==
    LET S1 == Captured(S, id, code, stderr)
    IN  IF IncludesAny(stderr, InstagramRateLimitPatterns)
        THEN Goto(Failed(S1, id, InstagramRateLimitMessage), id, "done")
        ELSE IF code = "0" THEN Goto(S1, id, "syncWait")
        ELSE Goto(Failed(S1, id, InstagramFailedMessage), id, "done")

\* Fault: the raw stderr without the fallback text.
exitMessage_noFallback(code, stderr) == Str(stderr)

\* The message for a non-zero exit on the general path.
exitMessage(code, stderr) ==
    IF IncludesAny(stderr, ExitAuthenticationPatterns)
    THEN Str(<<"This Instagram content requires authentication or you've hit rate limits. Instagram blocks automated downloads for most content. Try using a public post or wait before trying again.">>)
    ELSE IF IncludesAny(stderr, ExitNotFoundPatterns)
    THEN Str(<<"Content not found. The URL may be invalid, private, or the content may have been removed.">>)
    ELSE IF IncludesAny(stderr, ExtractionPatterns)
    THEN Str(<<"Unable to extract content from this URL. The platform may have updated their protection or the content may be restricted.">>)
    ELSE OrElse(Str(stderr), Str(<<"Download failed with exit code ", code>>))

\* Fault: the classified failure is recorded but the handler goes on to the
\* exit code instead of returning.
closeGeneral_noReturn(S, id, code, stderr) ==
    LET S1 == Captured(S, id, code, stderr)
        platformName == detectPlatform(S.task[id].url)
        S2 == IF IncludesAny(stderr, RateLimitPatterns)
              THEN Failed(S1, id, RateLimitedMessage(platformName))
              ELSE S1
    IN  IF code = "0" THEN Goto(S2, id, "syncWait")
        ELSE Goto(Failed(S2, id, exitMessage(code, stderr)), id, "done")

\* Fault: the exit code is compared with a value it never equals.
closeGeneral_codeMismatch(S, id, code, stderr) ==
    LET S1 == Captured(S, id, code, stderr)
        platformName == detectPlatform(S.task[id].url)
    IN  IF IncludesAny(stderr, RateLimitPatterns)
        THEN Goto(Failed(S1, id, RateLimitedMessage(platformName)), id, "done")
        ELSE Goto(Failed(S1, id, exitMessage(code, stderr)), id, "done")

\* Fault: with no pattern in stderr the handler goes on to the locator
\* without looking at the exit code.
closeGeneral_ignoreCode(S, id, code, stderr) ==
    LET S1 == Captured(S, id, code, stderr)
        platformName == detectPlatform(S.task[id].url)
    IN  IF IncludesAny(stderr, RateLimitPatterns)
        THEN Goto(Failed(S1, id, RateLimitedMessage(platformName)), id, "done")
        ELSE IF IncludesAny(stderr, AuthenticationPatterns)
        THEN Goto(Failed(S1, id, AuthenticationMessage(platformName)),
                  id, "done")
        ELSE IF IncludesAny(stderr, ForbiddenPatterns)
        THEN Goto(Failed(S1, id, ForbiddenMessage(platformName)), id, "done")
        ELSE IF IncludesAny(stderr, NotFoundPatterns)
        THEN Goto(Failed(S1, id, NotFoundMessage), id, "done")
        ELSE Goto(S1, id, "syncWait")

\* ytDlp.on("close") of processMedia, up to its pause.
\* Fault: an unclassified non-zero exit starts the tool again.
closeGeneral_retries(S, id, code, stderr) ==
    LET S1 == Captured(S, id, code, stderr)
        platformName == detectPlatform(S.task[id].url)
    IN  IF IncludesAny(stderr, RateLimitPatterns)
        THEN Goto(Failed(S1, id, RateLimitedMessage(platformName)), id, "done")
        ELSE IF IncludesAny(stderr, AuthenticationPatterns)
        THEN Goto(Failed(S1, id, AuthenticationMessage(platformName)),
                  id, "done")
        ELSE IF IncludesAny(stderr, ForbiddenPatterns)
        THEN Goto(Failed(S1, id, ForbiddenMessage(platformName)), id, "done")
        ELSE IF IncludesAny(stderr, NotFoundPatterns)
        THEN Goto(Failed(S1, id, NotFoundMessage), id, "done")
        ELSE IF code = "0" THEN Goto(S1, id, "syncWait")
        ELSE spawnGeneral(S1, id, "started")

closeGeneral(S, id, code, stderr) ==
    LET S1 == Captured(S, id, code, stderr)
        platformName == detectPlatform(S.task[id].url)
    IN  IF IncludesAny(stderr, RateLimitPatterns)
        THEN Goto(Failed(S1, id, RateLimitedMessage(platformName)), id, "done")
        ELSE IF IncludesAny(stderr, AuthenticationPatterns)
        THEN Goto(Failed(S1, id, AuthenticationMessage(platformName)),
                  id, "done")
        ELSE IF IncludesAny(stderr, ForbiddenPatterns)
        THEN Goto(Failed(S1, id, ForbiddenMessage(platformName)), id, "done")
        ELSE IF IncludesAny(stderr, NotFoundPatterns)
        THEN Goto(Failed(S1, id, NotFoundMessage), id, "done")
        ELSE IF code = "0" THEN Goto(S1, id, "syncWait")
        ELSE Goto(Failed(S1, id, exitMessage(code, stderr)), id, "done")

\* The handler's variable actualFile once the locator has run.
Located(S, id, found, fsOk) ==
    [S EXCEPT !.task[id].actualFile =
        IF ~fsOk THEN Threw
        ELSE IF found = {} THEN Undefined
        ELSE Str((CHOOSE f \in found : TRUE).name)]

\* The close handler of processInstagramMedia after its pause: found is the
\* file the locator selected, if any; fsOk is whether the directory reads.
finishInstagram(S, id, found, fsOk, parses) ==
    LET S1 == Located(Goto(S, id, "done"), id, found, fsOk)
    IN  IF ~fsOk
        THEN Failed(S1, id, InstagramProcessingErrorMessage)
        ELSE IF found = {}
        THEN Failed(S1, id, InstagramNoFileMessage)
        ELSE Completed(S1, id,
                       titleOf(S.files, uuid(id), parses,
                               Str(<<"Instagram Media">>)),
                       (CHOOSE f \in found : TRUE).name,
                       metadataOf(S.files, uuid(id), parses))

\* Fault: the completion update is made without testing actualFile.
finishGeneral_noTest(S, id, found, fsOk, parses) ==
    LET S1 == Located(Goto(S, id, "done"), id, found, fsOk)
    IN  IF ~fsOk
        THEN Failed(S1, id, ProcessingErrorMessage)
        ELSE Update(S1, id,
                    [status |-> "completed",
                     title |-> Str(<<"Downloaded from ",
                                     detectPlatform(S.task[id].url)>>),
                     filename |-> S1.task[id].actualFile,
                     metadata |-> Object({}),
                     downloadUrl |-> downloadUrlOf(id)])

\* Fault: a sidecar that does not parse takes the handler to its catch.
finishGeneral_parseThrows(S, id, found, fsOk, parses) ==
    LET S1 == Located(Goto(S, id, "done"), id, found, fsOk)
    IN  IF ~fsOk \/ (infoFiles(S.files, uuid(id)) # {} /\ ~parses)
        THEN Failed(S1, id, ProcessingErrorMessage)
        ELSE IF found = {}
        THEN Failed(S1, id, NoFileMessage)
        ELSE Completed(S1, id,
                       titleOf(S.files, uuid(id), parses,
                               Str(<<"Downloaded from ",
                                     detectPlatform(S.task[id].url)>>)),
                       (CHOOSE f \in found : TRUE).name,
                       metadataOf(S.files, uuid(id), parses))

\* The close handler of processMedia after its pause.
finishGeneral(S, id, found, fsOk, parses) ==
    LET S1 == Located(Goto(S, id, "done"), id, found, fsOk)
    IN  IF ~fsOk
        THEN Failed(S1, id, ProcessingErrorMessage)
        ELSE IF found = {}
        THEN Failed(S1, id, NoFileMessage)
        ELSE Completed(S1, id,
                       titleOf(S.files, uuid(id), parses,
                               Str(<<"Downloaded from ",
                                     detectPlatform(S.task[id].url)>>)),
                       (CHOOSE f \in found : TRUE).name,
                       metadataOf(S.files, uuid(id), parses))

\* handleDirectImageDownload once the fetch has settled.
finishDirectImage(S, id, ok, extension) ==
    LET S1 == Goto(S, id, "done")
        finalFilename == uuid(id) \o <<"_", "DirectImage-image", ".", extension>>
    IN  IF ~ok THEN Failed(S1, id, RuntimeErrorMessage)
        ELSE Completed([S1 EXCEPT !.files =
                           {f \in @ : f.name # finalFilename}
                           \cup {[name |-> finalFilename, mtime |-> S.now]}],
                       id, Str(<<"Direct Image Download">>), finalFilename,
                       Object({"originalUrl", "contentType", "directImage",
                               "downloadedAt"}))

(* ------------------------------- actions ------------------------------ *)

\* The outcomes of Array.prototype.find over a directory listing whose
\* order the file system decides: no file, or any one of the candidates.
Picks(candidates) ==
    IF candidates = {} THEN {{}} ELSE {{f} : f \in candidates}

Formats == {"video"}

Extensions == {"jpg", "png"}

\* POST /api/process with a body the schema accepts: validate, create the
\* record, start processMedia and run it to its first suspension.
Submit(url, format, out) ==
    /\ ~crashed
    /\ validateUrl(url)
    /\ LET platformName == detectPlatform(url)
           S1 == Create(State,
                        [url |-> url, format |-> format,
                         platform |-> platformName,
                         status |-> "processing",
                         title |-> Str(<<platformName, " Media">>)])
           id == CHOOSE i \in DOMAIN S1.downloads :
                     i \notin DOMAIN downloads
           download == S1.downloads[id]
       IN  Becomes([processMedia(S1, id, url, format, out) EXCEPT
                       !.response = [code |-> "200",
                                    body |-> [k |-> "download",
                                              v |-> download]]])

\* POST /api/process with a URL the schema or validateUrl turns down: the
\* 400 response and nothing else.
Reject(url) ==
    /\ ~crashed
    /\ ~validateUrl(url)
    /\ response' = [code |-> "400",
                    body |-> [k |-> "error", v |-> validationError(url)]]
    /\ UNCHANGED <<downloads, currentId, instagramRequestQueue,
                   isProcessingInstagram, lastInstagramRequestTime, workers,
                   task, files, now, crashed, warned, cookiesFile, returned,
                   log,
                   currentDownloadId>>

\* DELETE /api/downloads/:id for a stored id: unlink the file, drop the
\* record.
Delete(id) ==
    /\ ~crashed
    /\ id \in DOMAIN downloads
    /\ files' = IF Truthy(downloads[id].filename)
                THEN {f \in files : f.name # downloads[id].filename.v}
                ELSE files
    /\ downloads' = deleteDownload(downloads, id)
    /\ response' = [code |-> "200", body |-> [k |-> "success", v |-> TRUE]]
    /\ UNCHANGED <<currentId, instagramRequestQueue, isProcessingInstagram,
                   lastInstagramRequestTime, workers, task, now, crashed,
                   warned, cookiesFile, returned, log,
                   currentDownloadId>>

\* Fault: the worker ends after its one-second timer without looking at the
\* queue again.
DelayTimer_stops(w, out) ==
    /\ ~crashed
    /\ w \in DOMAIN workers
    /\ workers[w].pc = "delay"
    /\ Becomes([State EXCEPT !.isProcessingInstagram = FALSE,
                             !.workers = RemoveAt(@, w)])

\* The rate-limit wait of worker w is over.
WaitTimer(w, out) ==
    /\ ~crashed
    /\ w \in DOMAIN workers
    /\ workers[w].pc = "waiting"
    /\ now >= workers[w].deadline
    /\ Becomes(releaseInstagram(State, w, workers[w].downloadId, out))

\* The one-second timer of worker w fires: back to the loop condition.
DelayTimer(w, out) ==
    /\ ~crashed
    /\ w \in DOMAIN workers
    /\ workers[w].pc = "delay"
    /\ Becomes(queueLoop(State, w, out))

\* spawn's timeout option: the Instagram child is sent SIGTERM.
KillTimer(id) ==
    /\ ~crashed
    /\ task[id].path = "instagram"
    /\ task[id].pc = "running"
    /\ Becomes(Goto(State, id, "killed"))

\* The exit code 'close' reports: the tool's own, the negative errno of a
\* failed spawn, or null after a signal.
ExitCodes(pc) ==
    IF pc = "running" THEN {"0", "1"}
    ELSE IF pc = "errored" THEN {"-2"}
    ELSE IF pc = "killed" THEN {"null"}
    ELSE {}

\* The child of job id closes, having written stderr and output.
ProcessClose(id, code, stderr, output) ==
    /\ ~crashed
    /\ code \in ExitCodes(task[id].pc)
    /\ task[id].pc = "errored" => (stderr = <<>> /\ output = {})
    /\ LET instagram == task[id].path = "instagram"
           platformName == IF instagram THEN "Instagram"
                           ELSE detectPlatform(task[id].url)
           S1 == ToolFiles(State, id, platformName, output)
       IN  Becomes(IF instagram THEN closeInstagram(S1, id, code, stderr)
                   ELSE closeGeneral(S1, id, code, stderr))

\* The pause of the close handler is over: locate the file and finish.
SyncTimer(id, fsOk, parses) ==
    /\ ~crashed
    /\ task[id].pc = "syncWait"
    /\ IF task[id].path = "instagram"
       THEN \E found \in Picks(locateInstagram(files, uuid(id))) :
                Becomes(finishInstagram(State, id, found, fsOk, parses))
       ELSE \E found \in Picks(locate(files, uuid(id), now)) :
                Becomes(finishGeneral(State, id, found, fsOk, parses))

\* The fetch of a direct image settles.
FetchDone(id, ok, extension) ==
    /\ ~crashed
    /\ task[id].pc = "fetching"
    /\ Becomes(finishDirectImage(State, id, ok, extension))

\* Deadlines of the pending rate-limit waits.
PendingDeadlines ==
    {workers[w].deadline : w \in {v \in DOMAIN workers :
                                     workers[v].pc = "waiting"}}

\* Time passes up to the next deadline.
AdvanceToDeadline ==
    /\ ~crashed
    /\ \E d \in PendingDeadlines :
        /\ d > now
        /\ \A e \in PendingDeadlines : d <= e
        /\ now' = d
    /\ UNCHANGED <<downloads, currentId, instagramRequestQueue,
                   isProcessingInstagram, lastInstagramRequestTime, workers,
                   task, files, crashed, warned, cookiesFile, returned,
                   response, log,
                   currentDownloadId>>

\* Time passes by d, whatever is pending.
Tick(d) ==
    /\ ~crashed
    /\ now + d <= MaxTime
    /\ now' = now + d
    /\ UNCHANGED <<downloads, currentId, instagramRequestQueue,
                   isProcessingInstagram, lastInstagramRequestTime, workers,
                   task, files, crashed, warned, cookiesFile, returned,
                   response, log,
                   currentDownloadId>>

(* --------------------------- specifications --------------------------- *)

\* The whole server.
Next ==
    \/ \E url \in Urls, format \in Formats, out \in SpawnOutcomes :
           currentId <= MaxJobs /\ Submit(url, format, out)
    \/ \E id \in Ids : Delete(id)
    \/ \E w \in Ids, out \in SpawnOutcomes : WaitTimer(w, out)
    \/ \E w \in Ids, out \in SpawnOutcomes : DelayTimer(w, out)
    \/ \E id \in Ids : KillTimer(id)
    \/ \E id \in Ids, code \in {"0", "1", "-2", "null"},
          stderr \in Stderrs, output \in ToolOutputs :
           ProcessClose(id, code, stderr, output)
    \/ \E id \in Ids, fsOk \in BOOLEAN, parses \in BOOLEAN :
           SyncTimer(id, fsOk, parses)
    \/ \E id \in Ids, ok \in BOOLEAN, extension \in Extensions :
           FetchDone(id, ok, extension)
    \/ AdvanceToDeadline

Spec == Init /\ [][Next]_vars

\* cookies.txt is put in place or taken away by the operator.
CookiesChange ==
    /\ ~crashed
    /\ cookiesFile' = ~cookiesFile
    /\ UNCHANGED <<downloads, currentId, instagramRequestQueue,
                   isProcessingInstagram, lastInstagramRequestTime, workers,
                   task, files, now, crashed, warned, returned, response,
                   log,
                   currentDownloadId>>

\* Planning alone: submissions of every format are taken in and their
\* tools started, while cookies.txt comes and goes.
PlanNext ==
    \/ \E url \in PlanUrls, format \in AllFormats, out \in SpawnOutcomes :
           currentId <= MaxJobs /\ Submit(url, format, out)
    \/ \E w \in Ids, out \in SpawnOutcomes : WaitTimer(w, out)
    \/ \E w \in Ids, out \in SpawnOutcomes : DelayTimer(w, out)
    \/ AdvanceToDeadline
    \/ CookiesChange

PlanSpec == Init /\ [][PlanNext]_vars

\* The storage alone, called by a client of its own.
Inserts ==
    {[url |-> YtWatch, format |-> "video", platform |-> "YouTube",
      status |-> "processing", title |-> Str(<<"YouTube", " Media">>)],
     [url |-> IgPost, format |-> "audio", platform |-> "Instagram"]}

Patches ==
    {<<>>,
     [status |-> "completed", filename |-> Str(<<"file">>),
      downloadUrl |-> Str(<<"/api/download/", "file">>)],
     [status |-> "failed", errorMessage |-> Str(<<"message">>)],
     [title |-> Str(<<"title">>)]}

StoreCreate(insert) ==
    Becomes([Create(State, insert) EXCEPT
                !.returned = [op |-> "createDownload", id |-> currentId,
                              updates |-> <<>>, limit |-> 0,
                              value |-> [k |-> "record",
                                         v |-> createDownload(currentId,
                                                   insert, now)]]])

StoreUpdate(id, updates) ==
    Becomes([Update(State, id, updates) EXCEPT
                !.returned = [op |-> "updateDownload", id |-> id,
                              updates |-> updates, limit |-> 0,
                              value |-> updated(downloads, id, updates)]])

StoreDelete(id) ==
    Becomes([State EXCEPT
                !.downloads = deleteDownload(@, id),
                !.returned = [op |-> "deleteDownload", id |-> id,
                              updates |-> <<>>, limit |-> 0,
                              value |-> [k |-> "boolean",
                                         v |-> id \in DOMAIN downloads]]])

StoreNext ==
    \/ \E insert \in Inserts : currentId <= MaxJobs /\ StoreCreate(insert)
    \/ \E id \in Ids, updates \in Patches : StoreUpdate(id, updates)
    \/ \E id \in Ids : StoreDelete(id)

StoreSpec == Init /\ [][StoreNext]_vars

\* The listing alone: records are created at the same time or at different
\* times, deleted, and listed.
Limits == {-1, 0, 1, 2, 10}

ListTicks == {MaxTime \div 2}

StoreList(limit) ==
    Becomes([State EXCEPT
                !.returned = [op |-> "getRecentDownloads", id |-> 0,
                              updates |-> <<>>, limit |-> limit,
                              value |-> [k |-> "list",
                                         v |-> getRecentDownloads(downloads,
                                                                  limit)]]])

ListNext ==
    \/ \E insert \in Inserts : currentId <= MaxListed /\ StoreCreate(insert)
    \/ \E id \in Ids : StoreDelete(id)
    \/ \E limit \in Limits : StoreList(limit)
    \/ \E d \in ListTicks : Tick(d)

ListSpec == Init /\ [][ListNext]_vars

\* A number as a JavaScript value.
Num(n) == [k |-> "number", v |-> n]

\* response.json() of a 200 response to POST /api/process: the fields of the
\* record, the id as a number.
json(body) == [f \in DOMAIN body.v |->
                  IF f = "id" THEN Num(body.v[f]) ELSE body.v[f]]

\* Home.handleNewDownload(id)
handleNewDownload(S, id) == [S EXCEPT !.currentDownloadId = id]

\* processMutation.onSuccess of the submit form, whose onDownloadStart is
\* handleNewDownload.
onSuccess(S, result) == handleNewDownload(S, Field(result, "downloadId"))

\* The client receives the 200 response to its submission.
MutationSuccess ==
    /\ response.code = "200"
    /\ response.body.k = "download"
    /\ Becomes(onSuccess(State, json(response.body)))

\* The client and the intake: submissions are accepted or turned down, and
\* the form handles the accepted ones.
ClientNext ==
    \/ \E url \in IntakeUrls, format \in Formats, out \in SpawnOutcomes :
           currentId <= MaxJobs /\ Submit(url, format, out)
    \/ \E url \in IntakeUrls : Reject(url)
    \/ MutationSuccess

ClientSpec == Init /\ [][ClientNext]_vars

\* Intake alone: URLs of every sampled shape are submitted, accepted ones
\* are queued or started, and records are deleted.
IntakeNext ==
    \/ \E url \in IntakeUrls, format \in Formats, out \in SpawnOutcomes :
           currentId <= MaxJobs /\ Submit(url, format, out)
    \/ \E url \in IntakeUrls : Reject(url)
    \/ \E id \in Ids : Delete(id)
    \/ \E w \in Ids, out \in SpawnOutcomes : WaitTimer(w, out)
    \/ \E w \in Ids, out \in SpawnOutcomes : DelayTimer(w, out)
    \/ AdvanceToDeadline

IntakeSpec == Init /\ [][IntakeNext]_vars

\* Instagram posts, YouTube videos and plain images come in together, and
\* the queue's timers fire.
BypassNext ==
    \/ \E url \in {IgPost, YtWatch, PlainImage}, out \in SpawnOutcomes :
           currentId <= MaxMixed /\ Submit(url, "video", out)
    \/ \E w \in Ids, out \in SpawnOutcomes : WaitTimer(w, out)
    \/ \E w \in Ids, out \in SpawnOutcomes : DelayTimer(w, out)
    \/ AdvanceToDeadline

BypassSpec == Init /\ [][BypassNext]_vars

\* What the tool may have written to stderr, one sample for each branch of
\* the close handlers: nothing, a rate limit, a sign-in demand, a login
\* demand, a refusal, a missing page, a failed extraction, and an error no
\* branch looks for.
ClassifierStderrs ==
    { <<>>,
      <<"ERROR:", " ", "HTTP Error ", "429", ": ", "Too Many Requests">>,
      <<"ERROR:", " ", "Sign in to confirm", " you're not a bot">>,
      <<"ERROR:", " ", "login required">>,
      <<"ERROR:", " ", "HTTP Error ", "403", ": ", "Forbidden">>,
      <<"ERROR:", " ", "HTTP Error ", "404", ": ", "Not Found">>,
      <<"ERROR:", " ", "unable to extract", " video data">>,
      <<"ERROR:", " ", "Unsupported URL">> }

\* One job from its submission to the end of its close handler, with every
\* sample of stderr.
CloseNext ==
    \/ \E url \in {YtWatch, IgPost}, out \in SpawnOutcomes :
           currentId <= MaxClosed /\ Submit(url, "video", out)
    \/ \E w \in Ids, out \in SpawnOutcomes : DelayTimer(w, out)
    \/ \E id \in Ids : KillTimer(id)
    \/ \E id \in Ids, code \in {"0", "1", "-2", "null"},
          stderr \in ClassifierStderrs, output \in ToolOutputs :
           ProcessClose(id, code, stderr, output)
    \/ \E id \in Ids, fsOk \in BOOLEAN, parses \in BOOLEAN :
           SyncTimer(id, fsOk, parses)

CloseSpec == Init /\ [][CloseNext]_vars

\* The queue alone: Instagram posts come in while the clock runs freely.
QueueNext ==
    \/ \E out \in SpawnOutcomes :
           currentId <= MaxQueued /\ Submit(IgPost, "video", out)
    \/ \E id \in Ids : Delete(id)
    \/ \E w \in Ids, out \in SpawnOutcomes : WaitTimer(w, out)
    \/ \E w \in Ids, out \in SpawnOutcomes : DelayTimer(w, out)
    \/ AdvanceToDeadline
    \/ \E d \in {minDelay \div 2, minDelay} : Tick(d)

QueueSpec == Init /\ [][QueueNext]_vars

\* The whole server when every pending timer fires, every child closes
\* and every fetch settles.
FairSpec ==
    /\ Spec
    /\ WF_vars(\E w \in Ids, out \in SpawnOutcomes : WaitTimer(w, out))
    /\ WF_vars(\E w \in Ids, out \in SpawnOutcomes : DelayTimer(w, out))
    /\ WF_vars(\E id \in Ids, code \in {"0", "1", "-2", "null"},
                  stderr \in Stderrs, output \in ToolOutputs :
                   ProcessClose(id, code, stderr, output))
    /\ WF_vars(\E id \in Ids, fsOk \in BOOLEAN, parses \in BOOLEAN :
                   SyncTimer(id, fsOk, parses))
    /\ WF_vars(\E id \in Ids, ok \in BOOLEAN, extension \in Extensions :
                   FetchDone(id, ok, extension))
    /\ WF_vars(AdvanceToDeadline)

\* The queue alone when every pending timer fires.
QueueFairSpec ==
    /\ QueueSpec
    /\ WF_vars(\E w \in Ids, out \in SpawnOutcomes : WaitTimer(w, out))
    /\ WF_vars(\E w \in Ids, out \in SpawnOutcomes : DelayTimer(w, out))
    /\ WF_vars(AdvanceToDeadline)

\* The locator alone: job 1 has closed with code 0 and is in its pause, and
\* the downloads directory holds any selection of files, old or recent:
\* the job's media file, its sidecar, its partial download, an unrelated
\* media file, a test file, a temporary file, and a file that carries the
\* token in the middle of its name.
SampleNames ==
    { ToolFileName(1, "YouTube", "media"),
      ToolFileName(1, "YouTube", "info"),
      uuid(1) \o <<"_", "YouTube", "-", "title", ".", "mp4", ".part">>,
      <<"unrelated", ".", "mp4">>,
      <<"test.", "mp4">>,
      <<"download", ".tmp">>,
      <<"copy-">> \o uuid(1) \o <<".", "mp4">> }

\* An age of exactly the window, and an age of one second.
SampleTimes == {1000, recentWindow}

Directories ==
    {dir \in SUBSET [name : SampleNames, mtime : SampleTimes] :
        \A f, g \in dir : f.name = g.name => f = g}

LocatorInit ==
    /\ \E url \in {YtWatch, IgPost} :
        /\ downloads =
              [id \in {1} |->
                  createDownload(1, [url |-> url, format |-> "video",
                                     platform |-> detectPlatform(url),
                                     status |-> "processing",
                                     title |-> Str(<<detectPlatform(url),
                                                     " Media">>)],
                                 1000)]
        /\ task = [id \in Ids |->
                     IF id = 1
                     THEN [NoTask EXCEPT !.pc = "syncWait",
                                         !.path = pathOf(url),
                                         !.url = url,
                                         !.code = "0",
                                         !.args =
                                           IF pathOf(url) = "instagram"
                                           THEN instagramArgs(FALSE, "video")
                                           ELSE generalArgs(
                                                  detectPlatform(url), FALSE,
                                                  "video", Undefined)]
                     ELSE NoTask]
    /\ currentId = 2
    /\ instagramRequestQueue = <<>>
    /\ isProcessingInstagram = FALSE
    /\ lastInstagramRequestTime = 0
    /\ workers = <<>>
    /\ files \in Directories
    /\ now = recentWindow + 1000
    /\ crashed = FALSE
    /\ warned = {}
    /\ cookiesFile = FALSE
    /\ returned = NoCall
    /\ response = NoResponse
    /\ \E url \in {IgPost, YtWatch} :
        /\ task[1].url = url
        /\ log = IF pathOf(url) = "instagram"
                 THEN <<[event |-> "enqueued", id |-> 1, at |-> 0],
                        [event |-> "released", id |-> 1, at |-> 0],
                        [event |-> "spawned", id |-> 1, at |-> 0]>>
                 ELSE <<[event |-> "spawned", id |-> 1, at |-> 0]>>
    /\ currentDownloadId = Null

LocatorNext ==
    \E fsOk \in BOOLEAN, parses \in BOOLEAN : SyncTimer(1, fsOk, parses)

LocatorSpec == LocatorInit /\ [][LocatorNext]_vars

(* ------------------------------ properties ---------------------------- *)

Terminal == {"completed", "failed"}

\* The background work of job id has begun a fetch or a spawn.
Started(id) == task[id].pc \notin {"none", "start", "queued"}

\* Where in the history job id has the given event.
Positions(event, id) ==
    {i \in DOMAIN log : log[i].event = event /\ log[i].id = id}

\* Job id is the one a worker holds in its rate-limit wait.
InWait(id) ==
    \E w \in DOMAIN workers :
        workers[w].pc = "waiting" /\ workers[w].downloadId = id

\* Job id was created and its record is gone.
Deleted(id) == id < currentId /\ id \notin DOMAIN downloads

\* C1: in every step the status of a stored job either stays as it is or
\* moves from processing to completed or failed, so a completed or failed
\* status is never changed by a later update; and a record disappears only
\* in a step that is not a step of any background task (a deletion).
StatusOnlyAdvances ==
    [][/\ \A id \in DOMAIN downloads \cap DOMAIN downloads' :
            \/ downloads'[id].status = downloads[id].status
            \/ /\ downloads[id].status = "processing"
               /\ downloads'[id].status \in Terminal
       /\ \A id \in DOMAIN downloads \ DOMAIN downloads' :
            UNCHANGED <<task, workers, instagramRequestQueue, log, warned>>
      ]_vars

\* A completed job next to a job that failed in the 'error' listener and
\* then received the update of the 'close' handler as well.
StatusOnlyAdvancesWitness ==
    \E a, b \in DOMAIN downloads :
        /\ downloads[a].status = "completed"
        /\ downloads[b].status = "failed"
        /\ task[b].code = "-2"

\* C2: every job a submission creates is eventually completed or failed
\* unless it is deleted, on every path, when timers fire, children close
\* and fetches settle; and no failure takes the process down instead of
\* becoming a job state.
EveryJobEnds ==
    /\ \A id \in Ids :
          [](id \in DOMAIN downloads =>
                <>(id \notin DOMAIN downloads
                   \/ downloads[id].status \in Terminal))
    /\ []~crashed

\* C3: a stored job has a non-empty filename and a non-empty downloadUrl
\* exactly when its status is completed: a completed job has both, a
\* processing or failed job has neither.
FilenameIffCompleted ==
    \A id \in DOMAIN downloads :
        LET d == downloads[id]
        IN  IF d.status = "completed"
            THEN Truthy(d.filename) /\ Truthy(d.downloadUrl)
            ELSE ~Truthy(d.filename) /\ ~Truthy(d.downloadUrl)

\* A completed job next to one that failed after a zero exit code.
FilenameIffCompletedWitness ==
    \E a, b \in DOMAIN downloads :
        /\ downloads[a].status = "completed"
        /\ Truthy(downloads[a].filename)
        /\ downloads[b].status = "failed"
        /\ task[b].code = "0"

\* C4: a stored job has a non-empty errorMessage exactly when it is failed
\* or it is an Instagram job held in the rate-limit wait.
ErrorMessageIffFailedOrWaiting ==
    \A id \in DOMAIN downloads :
        Truthy(downloads[id].errorMessage)
            <=> \/ downloads[id].status = "failed"
                \/ (downloads[id].platform = "Instagram" /\ InWait(id))

\* An Instagram job showing the advisory while it waits, next to a failed
\* job and its message.
ErrorMessageIffFailedOrWaitingWitness ==
    \E a, b \in DOMAIN downloads :
        /\ InWait(a)
        /\ downloads[a].status = "processing"
        /\ Truthy(downloads[a].errorMessage)
        /\ downloads[b].status = "failed"
        /\ Truthy(downloads[b].errorMessage)

\* C5: when two Instagram jobs are both enqueued before either is released,
\* the earlier one is released no later than the other and the two releases
\* are at least minDelay apart.
DispatchesSpaced ==
    \A i, j \in DOMAIN log :
        (i < j /\ log[i].event = "enqueued" /\ log[j].event = "enqueued")
        => \A ri \in Positions("released", log[i].id),
              rj \in Positions("released", log[j].id) :
               (j < ri /\ j < rj)
               => /\ log[ri].at <= log[rj].at
                  /\ log[rj].at - log[ri].at >= minDelay

\* Two jobs enqueued while the worker was busy, both released since.
DispatchesSpacedWitness ==
    \E i, j \in DOMAIN log :
        /\ i < j
        /\ log[i].event = "enqueued"
        /\ log[j].event = "enqueued"
        /\ \E ri \in Positions("released", log[i].id),
              rj \in Positions("released", log[j].id) : j < ri /\ j < rj

\* C6: Instagram jobs are released in the order in which they were
\* enqueued: a released job has every job enqueued before it released
\* before it.
ReleasedInOrder ==
    \A i, j \in DOMAIN log :
        (i < j /\ log[i].event = "enqueued" /\ log[j].event = "enqueued")
        => \A rj \in Positions("released", log[j].id) :
               \E ri \in Positions("released", log[i].id) : ri < rj

\* Every job the bound allows has been released, one of them having
\* arrived later in time while the worker was suspended.
ReleasedInOrderWitness ==
    /\ \A id \in 1..MaxQueued : Positions("released", id) # {}
    /\ \E i, j \in DOMAIN log :
        /\ i < j
        /\ log[i].event = "enqueued"
        /\ log[j].event = "enqueued"
        /\ log[i].at < log[j].at
        /\ \E r \in Positions("released", log[i].id) : j < r

\* C7: at most one run of the queue worker exists; the running flag is set
\* exactly while it exists; and whatever is in the queue has that one
\* worker to take it, so an item enqueued while the worker is suspended
\* starts no second one.
SingleWorker ==
    /\ Len(workers) <= 1
    /\ isProcessingInstagram <=> Len(workers) = 1
    /\ instagramRequestQueue # <<>> => Len(workers) = 1

\* An item was enqueued while the one worker sits in its wait.
SingleWorkerWitness ==
    /\ Len(workers) = 1
    /\ workers[1].pc = "waiting"
    /\ instagramRequestQueue # <<>>

\* C8 as stated: a job whose URL resolves to the platform Instagram starts
\* no fetch and no spawn before the queue worker has released it, whatever
\* the shape of its URL.
InstagramAlwaysQueued ==
    \A id \in Ids :
        (Started(id) /\ detectPlatform(task[id].url) = "Instagram")
        => Positions("released", id) # {}

\* C8 amended: a job whose URL resolves to the platform Instagram and is not
\* a direct image URL starts no spawn before the queue worker has released
\* it, after it was enqueued; a job whose URL is a direct image URL never
\* enters the queue, whatever its platform.
InstagramQueuedUnlessDirectImage ==
    \A id \in Ids :
        /\ (/\ Started(id)
            /\ detectPlatform(task[id].url) = "Instagram"
            /\ ~isDirectImageUrl(task[id].url))
           => \E r \in Positions("released", id) :
                  \E e \in Positions("enqueued", id) : e < r
        /\ (task[id].pc # "none" /\ isDirectImageUrl(task[id].url))
           => Positions("enqueued", id) = {}

\* An Instagram post whose tool runs after its release, next to an image on
\* an Instagram host that is being fetched.
InstagramQueuedUnlessDirectImageWitness ==
    \E a, b \in Ids :
        /\ detectPlatform(task[a].url) = "Instagram"
        /\ task[a].pc = "running"
        /\ Positions("released", a) # {}
        /\ detectPlatform(task[b].url) = "Instagram"
        /\ task[b].pc = "fetching"

\* C9: once the record of a job is deleted it is never stored again: no
\* later update of its background task brings it back.
DeletedStaysDeleted ==
    [][\A id \in Ids : Deleted(id) => Deleted(id)']_vars

\* A job deleted while its task was under way: the task has since issued
\* its last update, which found no record.
DeletedStaysDeletedWitness ==
    \E id \in warned : Deleted(id) /\ task[id].pc = "done"

\* C10: once the close handler has captured a stderr containing
\* "HTTP Error 429", the locator is not run and the job, while stored, is
\* failed with the rate-limited message of its path, whatever the exit code
\* and whatever files are in the directory.
RateLimitNeverCompletes ==
    \A id \in Ids :
        (task[id].code # "none"
         /\ Includes(task[id].stderr, <<"HTTP Error ", "429">>))
        => /\ task[id].pc = "done"
           /\ id \in DOMAIN downloads
              => /\ downloads[id].status = "failed"
                 /\ downloads[id].errorMessage =
                      IF task[id].path = "instagram"
                      THEN InstagramRateLimitMessage
                      ELSE RateLimitedMessage(detectPlatform(task[id].url))

\* Exit code 0, stderr with the pattern, the job's file in the directory,
\* and the job failed.
RateLimitNeverCompletesWitness ==
    \E id \in DOMAIN downloads :
        /\ task[id].code = "0"
        /\ Includes(task[id].stderr, <<"HTTP Error ", "429">>)
        /\ \E f \in files : StartsWith(f.name, uuid(id)) /\ ~IsSidecar(f.name)
        /\ downloads[id].status = "failed"

\* C11: once a close handler has captured an empty stderr with exit code
\* 0, the job is not failed by classification: it enters the pause before
\* the locator, the locator runs for it, and if it ends failed it is with
\* one of the locator's messages.
EmptyStderrZeroExitLocates ==
    \A id \in Ids :
        (task[id].code = "0" /\ task[id].stderr = <<>>)
        => /\ task[id].pc \in {"syncWait", "done"}
           /\ task[id].pc = "done" => task[id].actualFile # NotLocated
           /\ (id \in DOMAIN downloads /\ downloads[id].status = "failed")
              => downloads[id].errorMessage \in
                     {NoFileMessage, InstagramNoFileMessage,
                      ProcessingErrorMessage, InstagramProcessingErrorMessage}

\* A job of each path that closed with empty stderr and code 0 and whose
\* locator has since run and found its file.
EmptyStderrZeroExitLocatesWitness ==
    \E a, b \in DOMAIN downloads :
        /\ task[a].path = "general" /\ task[b].path = "instagram"
        /\ \A id \in {a, b} :
            /\ task[id].code = "0" /\ task[id].stderr = <<>>
            /\ task[id].actualFile.k = "string"
            /\ downloads[id].status = "completed"

\* C12: whenever the directory holds a file whose name starts with the
\* job's token and ends in neither .info.json nor .part, the general
\* locator, if the directory can be read, returns a file whose name starts
\* with that token, whatever else is in the directory.
LocatorPrefersToken ==
    [][\A id \in Ids :
          (/\ task[id].path = "general"
           /\ task[id].pc = "syncWait"
           /\ task'[id].pc = "done"
           /\ task'[id].actualFile # Threw
           /\ \E f \in files :
                 /\ StartsWith(f.name, uuid(id))
                 /\ ~EndsWith(f.name, <<".info.json">>)
                 /\ ~EndsWith(f.name, <<".part">>))
          => /\ task'[id].actualFile.k = "string"
             /\ StartsWith(task'[id].actualFile.v, uuid(id))]_vars

\* The locator has returned the job's media file from a directory that
\* also held its sidecar and a more recent unrelated file.
LocatorPrefersTokenWitness ==
    /\ task[1].path = "general"
    /\ task[1].actualFile = Str(ToolFileName(1, "YouTube", "media"))
    /\ [name |-> ToolFileName(1, "YouTube", "info"), mtime |-> 1000]
           \in files
    /\ [name |-> ToolFileName(1, "YouTube", "media"), mtime |-> 1000]
           \in files
    /\ [name |-> <<"unrelated", ".", "mp4">>, mtime |-> recentWindow]
           \in files

\* C13: a completed job records a filename that contains its own token,
\* never a file written for another job.
CompletedFileCarriesOwnToken ==
    \A id \in DOMAIN downloads :
        downloads[id].status = "completed"
        => Includes(downloads[id].filename.v, uuid(id))

\* C14: a job whose child exited with code 0, whose stderr matched no
\* pattern and for which the locator returned no file is failed with the
\* no-file message of its path; and a job completed by a close handler has
\* the located file as its filename.
NoFileMeansFailed ==
    \A id \in DOMAIN downloads :
        /\ (task[id].pc = "done" /\ task[id].code = "0"
            /\ task[id].actualFile = Undefined)
           => /\ downloads[id].status = "failed"
              /\ downloads[id].errorMessage =
                    IF task[id].path = "instagram"
                    THEN InstagramNoFileMessage ELSE NoFileMessage
        /\ (downloads[id].status = "completed" /\ task[id].path # "direct")
           => /\ task[id].actualFile.k = "string"
              /\ downloads[id].filename = task[id].actualFile

\* The locator went through a directory that is not empty and returned
\* nothing, and the job is failed.
NoFileMeansFailedWitness ==
    /\ task[1].pc = "done"
    /\ task[1].path = "general"
    /\ task[1].actualFile = Undefined
    /\ files # {}
    /\ 1 \in DOMAIN downloads
    /\ downloads[1].status = "failed"

\* C15: a job whose tool could not be started (the executable is missing)
\* is failed with the start-failure message, on the Instagram path as on
\* the general path, and that message is the one that stays stored.
StartFailureMessageStays ==
    \A id \in Ids :
        (task[id].pc \in {"errored", "dead"} \/ task[id].code = "-2")
        => /\ ~crashed
           /\ id \in DOMAIN downloads
              => /\ downloads[id].status = "failed"
                 /\ downloads[id].errorMessage = StartFailureMessage


\* C16: the argument list built for an Instagram job holds the flag that
\* takes credentials from the browser and not the credential-file flag when
\* cookies.txt is missing at the time the list is built, and the
\* credential-file flag and not the browser flag when the file is there.
InstagramCredentialFlags ==
    [][\A id \in Ids :
          (task[id].args = <<>> /\ task'[id].args # <<>>
                /\ task'[id].path = "instagram")
          => IF cookiesFile
             THEN /\ HasArg(task'[id].args, "--cookies")
                  /\ ~HasArg(task'[id].args, "--cookies-from-browser")
             ELSE /\ HasArg(task'[id].args, "--cookies-from-browser")
                  /\ ~HasArg(task'[id].args, "--cookies")]_vars

InstagramCredentialFlagsWitness ==
    \E a, b \in Ids :
        /\ task[a].path = "instagram" /\ task[b].path = "instagram"
        /\ HasArg(task[a].args, "--cookies")
        /\ HasArg(task[b].args, "--cookies-from-browser")

\* C17: updateDownload with an empty patch on a stored id leaves the whole
\* store as it was and returns the record that was stored; a second such
\* call changes nothing either.
EmptyPatchChangesNothing ==
    [][(/\ returned'.op = "updateDownload"
        /\ DOMAIN returned'.updates = {}
        /\ returned'.id \in DOMAIN downloads)
       => /\ downloads' = downloads
          /\ returned'.value = [k |-> "record", v |-> downloads[returned'.id]]
          /\ updateDownload(downloads', returned'.id, returned'.updates)
                = downloads'
          /\ updated(downloads', returned'.id, returned'.updates)
                = returned'.value]_vars

EmptyPatchChangesNothingWitness ==
    /\ returned.op = "updateDownload"
    /\ DOMAIN returned.updates = {}
    /\ returned.id \in DOMAIN downloads
    /\ downloads[returned.id].status = "completed"
    /\ Truthy(downloads[returned.id].filename)

\* Id was handed out to a submission at some time.
Assigned(id) == task[id].pc # "none"

\* C18: a record that enters the store carries the id it is stored under,
\* and that id is greater than every id handed out before, the ids of
\* deleted jobs included; so no id is handed out twice.
IdsNeverReused ==
    [][\A id \in DOMAIN downloads' \ DOMAIN downloads :
          /\ downloads'[id].id = id
          /\ ~Assigned(id)
          /\ \A j \in Ids : (Assigned(j) \/ j \in DOMAIN downloads) => j < id
          /\ currentId' > id]_vars

\* The last request answered was a submission, it was given an id, and the
\* job before it had been deleted by then.
IdsNeverReusedWitness ==
    /\ response.body.k = "download"
    /\ response.body.v.id = 2
    /\ 2 \in DOMAIN downloads
    /\ Assigned(1)
    /\ 1 \notin DOMAIN downloads

\* C19: the step that creates a record also answers the submission, with
\* that record in status processing, whatever the background task has still
\* to do; and no record in the store ever has status pending.
SubmissionAnswersAtOnce ==
    [][/\ \A id \in DOMAIN downloads' : downloads'[id].status # "pending"
       /\ \A id \in DOMAIN downloads' \ DOMAIN downloads :
             /\ response'.code = "200"
             /\ response'.body.k = "download"
             /\ response'.body.v.id = id
             /\ response'.body.v.status = "processing"]_vars

\* The submission of a job has been answered while the job is held in the
\* rate-limit wait of the queue.
SubmissionAnswersAtOnceWitness ==
    \E id \in DOMAIN downloads :
        /\ InWait(id)
        /\ response.body.k = "download"
        /\ response.body.v.id = id
        /\ response.body.v.status = "processing"
        /\ downloads[id].status = "processing"

\* URLs that are malformed or of a shape the server does not take: a
\* channel, a playlist, a profile, a homepage.
InvalidUrls == {Malformed, YtChannel, YtPlaylist, IgProfile, IgHome, Homepage}

\* C20: a submission of a malformed URL or of a channel, playlist, profile
\* or homepage URL is answered with an error in a step that creates no
\* record, hands out no id and starts no background task; so no record and
\* no task ever has such a URL.
InvalidUrlLeavesNoTrace ==
    [][/\ (response'.code = "400" /\ response' # response)
          => UNCHANGED <<downloads, currentId, task, instagramRequestQueue,
                         isProcessingInstagram, workers, files, log>>
       /\ \A id \in DOMAIN downloads' : downloads'[id].url \notin InvalidUrls
       /\ \A id \in Ids :
             task'[id].pc # "none" => task'[id].url \notin InvalidUrls]_vars

\* A submission was turned down after job 1 had been taken in, and id 2 is
\* still to be handed out.
InvalidUrlLeavesNoTraceWitness ==
    /\ response.code = "400"
    /\ response.body.v = validationError(IgProfile)
    /\ Assigned(1)
    /\ currentId = 2
    /\ ~Assigned(2)

\* C21: in the step that takes in a job for a platform other than Instagram
\* the job is not put in the queue and its work is begun at once (the tool
\* is spawned, or the image fetch is under way), whatever the queue holds,
\* whatever the workers are waiting for and whenever the last release was.
OthersBypassQueue ==
    [][\A id \in DOMAIN downloads' \ DOMAIN downloads :
          detectPlatform(downloads'[id].url) # "Instagram"
          => /\ instagramRequestQueue' = instagramRequestQueue
             /\ workers' = workers
             /\ lastInstagramRequestTime' = lastInstagramRequestTime
             /\ Positions("enqueued", id)' = {}
             /\ task'[id].pc \in {"running", "fetching", "done", "errored"}
             /\ task'[id].path = "general" => task'[id].args # <<>>
       ]_vars

\* A YouTube job's tool is running while an earlier Instagram job is held in
\* the rate-limit wait and a later-released one would still have to wait,
\* and an Instagram job that came before it is still in the queue.
OthersBypassQueueWitness ==
    \E id \in DOMAIN downloads :
        /\ downloads[id].platform = "YouTube"
        /\ task[id].pc = "running"
        /\ \E w \in DOMAIN workers : workers[w].pc = "waiting"
        /\ \E q \in DOMAIN instagramRequestQueue :
               instagramRequestQueue[q] < id
        /\ lastInstagramRequestTime > 0
        /\ now - lastInstagramRequestTime < minDelay

\* The patterns of the failure categories: rate-limited,
\* authentication-required, forbidden, not-found, extraction-failed.
FailurePatterns ==
    RateLimitPatterns \cup InstagramRateLimitPatterns
    \cup AuthenticationPatterns \cup ExitAuthenticationPatterns
    \cup ForbiddenPatterns \cup NotFoundPatterns \cup ExitNotFoundPatterns
    \cup ExtractionPatterns

\* The child of job id has closed.
Closed(id) == task[id].code # "none"

\* C22: once a child has closed with a stderr that contains a pattern of
\* any failure category, the job is failed and its handler is over,
\* whatever the exit code was.
ClassifiedAlwaysFails ==
    \A id \in DOMAIN downloads :
        (Closed(id) /\ IncludesAny(task[id].stderr, FailurePatterns))
        => /\ task[id].pc = "done"
           /\ downloads[id].status = "failed"

\* C23: once a child has closed with a stderr that contains an
\* authentication pattern (a sign-in or login demand) and no rate-limit
\* pattern, the job is failed with a message that is not the rate-limited
\* message, on the Instagram path as on the general path.
AuthenticationIsItsOwnCategory ==
    \A id \in DOMAIN downloads :
        (/\ Closed(id)
         /\ IncludesAny(task[id].stderr,
                        AuthenticationPatterns \cup {<<"login required">>})
         /\ ~IncludesAny(task[id].stderr, RateLimitPatterns))
        => /\ downloads[id].status = "failed"
           /\ downloads[id].errorMessage
                 \notin {InstagramRateLimitMessage,
                         RateLimitedMessage(downloads[id].platform)}

\* C25: an Instagram child terminated by the spawn timeout leaves its job
\* failed with a message other than that of an ordinary non-zero exit.
TimeoutIsDistinguished ==
    \A id \in DOMAIN downloads :
        (/\ task[id].code = "null"
         /\ ~IncludesAny(task[id].stderr, InstagramRateLimitPatterns))
        => /\ downloads[id].status = "failed"
           /\ downloads[id].errorMessage # InstagramFailedMessage

\* The child of job id closed with a non-zero exit code and a stderr that
\* holds no pattern of any failure category.
UnclassifiedNonZeroExit(id) ==
    /\ Closed(id)
    /\ task[id].code # "0"
    /\ ~IncludesAny(task[id].stderr, FailurePatterns)

\* The captured stderr, or the text naming the exit code when it is empty.
StderrOrExitCode(id) ==
    OrElse(Str(task[id].stderr),
           Str(<<"Download failed with exit code ", task[id].code>>))

\* C24 as stated: after a non-zero exit with no pattern in stderr the job
\* is failed and its message is the captured stderr, or the text naming the
\* exit code when stderr is empty, on either path.
NonZeroExitCarriesStderr ==
    \A id \in DOMAIN downloads :
        UnclassifiedNonZeroExit(id)
        => /\ downloads[id].status = "failed"
           /\ downloads[id].errorMessage = StderrOrExitCode(id)

\* C24: after a non-zero exit with no pattern in stderr the handler is over
\* and the job is failed, never completed; its message is the captured
\* stderr (or the text naming the exit code) on the general path and the
\* fixed Instagram failure message on the Instagram path.
NonZeroExitFails ==
    \A id \in DOMAIN downloads :
        UnclassifiedNonZeroExit(id)
        => /\ task[id].pc = "done"
           /\ downloads[id].status = "failed"
           /\ downloads[id].filename = Null
           /\ downloads[id].errorMessage =
                 IF task[id].path = "instagram" THEN InstagramFailedMessage
                 ELSE StderrOrExitCode(id)

\* A YouTube job failed with the tool's own stderr after exit code 1 although
\* a file with its token is in the directory.
NonZeroExitFailsWitness ==
    \E id \in DOMAIN downloads :
        /\ UnclassifiedNonZeroExit(id)
        /\ task[id].path = "general"
        /\ task[id].code = "1"
        /\ task[id].stderr # <<>>
        /\ prefixMatches(files, uuid(id)) # {}
        /\ downloads[id].status = "failed"

\* Job id has been put in the queue; the worker has let job id go.
Enqueued(id) == Positions("enqueued", id) # {}

Released(id) == Positions("released", id) # {}

AdvisoryOnlyWhileWaiting ==
    [][\A id \in Ids :
          /\ (InWait(id)' /\ id \in DOMAIN downloads')
             => /\ downloads'[id].status = "processing"
                /\ Truthy(downloads'[id].errorMessage)
          /\ (~Released(id) /\ Released(id)')
             => /\ lastInstagramRequestTime' = now'
                /\ id \in DOMAIN downloads'
                   => /\ \/ ~Truthy(downloads'[id].errorMessage)
                         \/ downloads'[id].errorMessage
                               = InstagramRestrictedMessage
                      /\ task'[id].pc = "running"
                         => /\ downloads'[id].status = "processing"
                            /\ ~Truthy(downloads'[id].errorMessage)
      ]_vars

\* A job released a full minDelay after the release before it, which it
\* spent in the wait: its record is processing with no message.
AdvisoryOnlyWhileWaitingWitness ==
    \E id \in DOMAIN downloads, i, j \in DOMAIN log :
        /\ i < j
        /\ log[i].event = "released"
        /\ log[j].event = "released" /\ log[j].id = id
        /\ log[j].at = log[i].at + minDelay
        /\ task[id].pc = "running"
        /\ downloads[id].status = "processing"
        /\ downloads[id].errorMessage = Undefined

\* Job id has been taken from the head of the queue.
Taken(id) ==
    Enqueued(id) /\ \A q \in DOMAIN instagramRequestQueue :
                        instagramRequestQueue[q] # id

\* C28: the step that takes a job from the head of the queue releases it
\* at once, with no advisory, when there has been no release yet or the last
\* one is at least minDelay old; otherwise it suspends the job until
\* minDelay after the last release, a wait greater than 0 and at most
\* minDelay, which the advisory names; and a suspended job is not released
\* before that time.
WaitIsTheRestOfMinDelay ==
    [][\A id \in Ids :
          /\ (~Taken(id) /\ Taken(id)')
             => LET last == lastInstagramRequestTime
                    wait == minDelay - (now - last)
                IN  IF last = 0 \/ now - last >= minDelay
                    THEN /\ Released(id)'
                         /\ ~InWait(id)'
                         /\ id \in DOMAIN downloads'
                            => \/ ~Truthy(downloads'[id].errorMessage)
                               \/ downloads'[id].errorMessage
                                     = InstagramRestrictedMessage
                    ELSE /\ ~Released(id)'
                         /\ wait > 0 /\ wait <= minDelay
                         /\ \E w \in DOMAIN workers' :
                                workers'[w] = Waiting(id, now + wait)
                         /\ id \in DOMAIN downloads'
                            => downloads'[id].errorMessage
                                  = WaitingMessage(wait)
          /\ (InWait(id) /\ Released(id)')
             => \E w \in DOMAIN workers :
                    /\ workers[w].downloadId = id
                    /\ now' >= workers[w].deadline
      ]_vars

\* A job taken half of minDelay after the last release is held for the
\* other half.
WaitIsTheRestOfMinDelayWitness ==
    \E id \in DOMAIN downloads, w \in DOMAIN workers :
        /\ workers[w].pc = "waiting"
        /\ workers[w].downloadId = id
        /\ now - lastInstagramRequestTime = minDelay \div 2
        /\ workers[w].deadline - now = minDelay \div 2
        /\ downloads[id].errorMessage = WaitingMessage(minDelay \div 2)

\* The step builds the argument list of job id.
Planned(id) == task[id].args = <<>> /\ task'[id].args # <<>>

\* C29 as stated: every argument list holds the credential-file flag exactly
\* when cookies.txt exists at the time it is built, and the browser flag
\* exactly when it does not.
ExactlyOneCredentialFlag ==
    [][\A id \in Ids :
          Planned(id)
          => /\ HasArg(task'[id].args, "--cookies") <=> cookiesFile
             /\ HasArg(task'[id].args, "--cookies-from-browser")
                   <=> ~cookiesFile]_vars

\* C29: every argument list holds the credential-file flag exactly when
\* cookies.txt exists at the time it is built; it holds the browser flag
\* exactly when the file is missing and the platform is Instagram or
\* YouTube; so no list holds both, and lists for other platforms built
\* without the file hold neither.
CredentialFlagsByPlatform ==
    [][\A id \in Ids :
          Planned(id)
          => /\ HasArg(task'[id].args, "--cookies") <=> cookiesFile
             /\ HasArg(task'[id].args, "--cookies-from-browser")
                   <=> /\ ~cookiesFile
                       /\ detectPlatform(task'[id].url)
                             \in {"Instagram", "YouTube"}]_vars

\* A TikTok job planned with neither flag and a YouTube job planned with
\* the browser flag.
CredentialFlagsByPlatformWitness ==
    \E a, b \in Ids :
        /\ detectPlatform(task[a].url) = "TikTok"
        /\ task[a].args # <<>>
        /\ ~HasArg(task[a].args, "--cookies")
        /\ ~HasArg(task[a].args, "--cookies-from-browser")
        /\ detectPlatform(task[b].url) = "YouTube"
        /\ HasArg(task[b].args, "--cookies-from-browser")

\* The audio-extraction flags and the thumbnail-extraction flags.
HasAudioFlags(args) ==
    HasArg(args, "--extract-audio") /\ HasArg(args, "--audio-format")

HasThumbnailFlags(args) ==
    HasArg(args, "--write-thumbnail") /\ HasArg(args, "--convert-thumbnails")

\* C30 as stated: an argument list built for format audio holds the
\* audio-extraction flags and one built for format image holds the
\* thumbnail-extraction flags, on every platform.
FormatFlagsOnEveryPlatform ==
    [][\A id \in Ids :
          Planned(id)
          => /\ task'[id].format = "audio" => HasAudioFlags(task'[id].args)
             /\ task'[id].format = "image"
                   => HasThumbnailFlags(task'[id].args)]_vars

\* C30: an argument list built for format audio holds the audio-extraction
\* flags on every platform; one built for format image holds the
\* thumbnail-extraction flags on every platform but Instagram, where it
\* holds the plain best-format selector and no thumbnail flag.
FormatFlagsButInstagramImage ==
    [][\A id \in Ids :
          Planned(id)
          => /\ task'[id].format = "audio" => HasAudioFlags(task'[id].args)
             /\ task'[id].format = "image"
                   => IF task'[id].path = "instagram"
                      THEN /\ ~HasThumbnailFlags(task'[id].args)
                           /\ HasArg(task'[id].args, "--format")
                           /\ HasArg(task'[id].args, "best")
                      ELSE HasThumbnailFlags(task'[id].args)]_vars

\* A YouTube plan for an image with the thumbnail flags, next to an
\* Instagram plan for an image without them.
FormatFlagsButInstagramImageWitness ==
    \E a, b \in Ids :
        /\ detectPlatform(task[a].url) = "YouTube"
        /\ task[a].format = "image"
        /\ HasThumbnailFlags(task[a].args)
        /\ task[b].path = "instagram"
        /\ task[b].format = "image"
        /\ task[b].args # <<>>
        /\ ~HasThumbnailFlags(task[b].args)

\* The title a close handler falls back on.
DefaultTitle(id) ==
    IF task[id].path = "instagram" THEN Str(<<"Instagram Media">>)
    ELSE Str(<<"Downloaded from ", detectPlatform(task[id].url)>>)

\* C31: a job whose close handler has located a file is completed, whether
\* or not a sidecar with its token is there and whether or not it parses:
\* its title and metadata are those of a parsed sidecar, or else the default
\* title together with empty metadata.
SidecarFailureIsNotFatal ==
    \A id \in DOMAIN downloads :
        (task[id].pc = "done" /\ task[id].actualFile.k = "string")
        => /\ downloads[id].status = "completed"
           /\ \/ /\ downloads[id].title = DefaultTitle(id)
                 /\ downloads[id].metadata = Object({})
              \/ /\ infoFiles(files, uuid(id)) # {}
                 /\ downloads[id].title = Str(<<"title">>)
                 /\ downloads[id].metadata = Object({"title"})

\* A job completed with the default title and empty metadata although a
\* sidecar with its token is in the directory.
SidecarFailureIsNotFatalWitness ==
    \E id \in DOMAIN downloads :
        /\ task[id].path = "general"
        /\ infoFiles(files, uuid(id)) # {}
        /\ downloads[id].status = "completed"
        /\ downloads[id].title = DefaultTitle(id)
        /\ downloads[id].metadata = Object({})

\* The spawn() call for job id has been made.
Spawned(id) == Positions("spawned", id) # {}

\* C32: once the tool has been started for a job, or the job has failed, no
\* step starts the tool for that job or puts the job in the queue again.
StartedAtMostOnce ==
    [][\A id \in Ids :
          (Spawned(id) \/ (id \in DOMAIN downloads
                           /\ downloads[id].status = "failed"))
          => /\ Positions("spawned", id)' = Positions("spawned", id)
             /\ Positions("enqueued", id)' = Positions("enqueued", id)]_vars

\* A job whose tool was started once and that has failed, while another
\* submission is still possible.
StartedAtMostOnceWitness ==
    \E id \in DOMAIN downloads :
        /\ Cardinality(Positions("spawned", id)) = 1
        /\ downloads[id].status = "failed"
        /\ task[id].pc = "done"
        /\ task[id].code = "1"
        /\ currentId <= MaxJobs

\* C33 as the specification states it: a listing never puts a record
\* behind one that was created before it, records of one clock tick
\* included.
ListedNewestFirst ==
    returned.op = "getRecentDownloads"
    => \A i, j \in DOMAIN returned.value.v :
           i < j => returned.value.v[i].id > returned.value.v[j].id

\* The fields no update of the core names.
IdentityFields == {"id", "url", "format", "quality", "platform", "createdAt"}

\* C34: whatever step the program takes, a record stored before and after
\* it has the id, url, format, quality, platform and createdAt it had.
UpdatesKeepIdentity ==
    [][\A id \in DOMAIN downloads \cap DOMAIN downloads' :
          \A f \in IdentityFields :
              downloads'[id][f] = downloads[id][f]]_vars

\* An Instagram job that was held in the rate-limit wait, was released
\* later and has failed after the time of its creation: the advisory, its
\* clearing and the failure have all been written.
UpdatesKeepIdentityWitness ==
    \E id \in DOMAIN downloads :
        /\ downloads[id].status = "failed"
        /\ downloads[id].createdAt < now
        /\ \E e \in Positions("enqueued", id), r \in Positions("released", id) :
               log[e].at < log[r].at

\* C35 as the specification states it: the filename of a completed job is
\* never that of a sidecar or of a partial download.
CompletedFileIsMedia ==
    \A id \in DOMAIN downloads :
        (downloads[id].status = "completed" /\ Truthy(downloads[id].filename))
        => /\ ~IsSidecar(downloads[id].filename.v)
           /\ ~IsPartial(downloads[id].filename.v)

\* C36 as the specification states it: a record that has a terminal status
\* is not written with a terminal status a second time, a start failure
\* followed by the close of the child included.
OneTerminalUpdate ==
    [][\A id \in DOMAIN downloads \cap DOMAIN downloads' :
          downloads[id].status \in Terminal
          => ~ /\ downloads'[id].status \in Terminal
               /\ downloads'[id] # downloads[id]]_vars

TracksCreatedJob ==
    [][currentDownloadId' # currentDownloadId
       => currentDownloadId' = Num(response.body.v.id)]_vars

\* C39: whenever control is back with the event loop, a queue that is not
\* empty has the running flag set; and the flag goes from set to clear only
\* in a step of a worker that found the queue empty and left it empty.
FlagCoversQueue ==
    /\ [](instagramRequestQueue # <<>> => isProcessingInstagram)
    /\ [][(isProcessingInstagram /\ ~isProcessingInstagram')
          => /\ instagramRequestQueue = <<>>
             /\ instagramRequestQueue' = <<>>
             /\ Len(workers') < Len(workers)]_vars

\* A job sat in the queue while the worker was suspended over the job
\* before it; both have been released, the worker has found the queue empty
\* and has cleared the flag.
FlagCoversQueueWitness ==
    /\ ~isProcessingInstagram
    /\ instagramRequestQueue = <<>>
    /\ workers = <<>>
    /\ \E i, j \in Ids :
        \E ei \in Positions("enqueued", i), ej \in Positions("enqueued", j),
           ri \in Positions("released", i), rj \in Positions("released", j) :
            /\ ei < ej
            /\ log[ri].at < log[ej].at
            /\ log[ej].at < log[rj].at
====
